---- MODULE Spec2Model ----
(***************************************************************************)
(* Model of the Telegram media downloader: TelegramDownloader              *)
(* (downloader.py), BatchLinkDownloader (batch_download_from_links.py) and *)
(* the channel-reference resolution done by get_entity and its copies.     *)
(*                                                                         *)
(* asyncio is single-threaded: a coroutine runs without interruption until *)
(* it awaits the transport.  One action is therefore the code between two  *)
(* awaits of one coroutine.                                                *)
(***************************************************************************)
EXTENDS Integers, Sequences, FiniteSets, TLC

\* ------------------------------------------------------------------------
\* Bounds of the model
\* ------------------------------------------------------------------------
MaxItems == 3
MaxBatch == 2
MaxRetries == 3
MaxCalls == 2
MaxLinks == 4
MaxErrors == 3
MaxWorkers == 2
MaxGuiItems == 2

\* ------------------------------------------------------------------------
\* Generic helpers
\* ------------------------------------------------------------------------
Range(s) == {s[k] : k \in DOMAIN s}

Min(a, b) == IF a < b THEN a ELSE b

SeqsUpTo(S, n) == UNION {[1..k -> S] : k \in 0..n}

\* Python slice s[a:b] with 0-based bounds 0 <= a, b (b is clipped to len(s)).
Slice(s, a, b) ==
  LET e == Min(b, Len(s))
  IN  IF a >= e THEN <<>> ELSE [k \in 1..(e - a) |-> s[a + k]]

\* ------------------------------------------------------------------------
\* Strings.  A Python string is a sequence of tokens; a token is one of the
\* characters the code inspects ("-", "/", "#", "?", "&", a digit) or a word
\* that contains none of them ("https:", "t.me", "chan").
\* ------------------------------------------------------------------------
Digits == {"0", "1", "2", "3", "4", "5", "6", "7", "8", "9"}

\* s[a:] with a 0-based
From(s, a) == IF a >= Len(s) THEN <<>> ELSE [k \in 1..(Len(s) - a) |-> s[a + k]]

\* s[:b]
Upto(s, b) == IF b <= 0 THEN <<>> ELSE [k \in 1..Min(b, Len(s)) |-> s[k]]

\* s.startswith(pat)
StartsWith(s, pat) == Len(pat) <= Len(s) /\ Upto(s, Len(pat)) = pat

\* the 1-based positions at which pat occurs in s
Occurrences(s, pat) == {i \in 1..Len(s) : StartsWith(From(s, i - 1), pat)}

\* pat in s
Contains(s, pat) == Occurrences(s, pat) # {}

FirstOcc(s, pat) == CHOOSE i \in Occurrences(s, pat) : \A j \in Occurrences(s, pat) : i <= j

RECURSIVE AfterLastOcc(_, _)
\* s.split(pat)[-1]
AfterLastOcc(s, pat) ==
  IF ~Contains(s, pat) THEN s
  ELSE AfterLastOcc(From(s, FirstOcc(s, pat) - 1 + Len(pat)), pat)

\* s.split(pat)[0]
BeforeFirstOcc(s, pat) ==
  IF ~Contains(s, pat) THEN s ELSE Upto(s, FirstOcc(s, pat) - 1)

\* s.split(pat)[1], for s containing pat
SplitSecond(s, pat) ==
  BeforeFirstOcc(From(s, FirstOcc(s, pat) - 1 + Len(pat)), pat)

RECURSIVE SplitOn(_, _)
\* s.split(c): the parts of s between the occurrences of c
SplitOn(s, c) ==
  IF ~Contains(s, <<c>>) THEN <<s>>
  ELSE <<Upto(s, FirstOcc(s, <<c>>) - 1)>> \o SplitOn(From(s, FirstOcc(s, <<c>>)), c)

RECURSIVE RStrip(_, _)
\* s.rstrip(c)
RStrip(s, c) ==
  IF s # <<>> /\ s[Len(s)] = c THEN RStrip(Upto(s, Len(s) - 1), c) ELSE s

RECURSIVE LStrip(_, _)
\* s.lstrip(c)
LStrip(s, c) ==
  IF s # <<>> /\ s[1] = c THEN LStrip(From(s, 1), c) ELSE s

\* s.isdigit()
IsDigit(s) == s # <<>> /\ \A k \in DOMAIN s : s[k] \in Digits

\* ------------------------------------------------------------------------
\* Integers.  Channel IDs exceed the integers of the model checker, so a
\* Python int is kept as its decimal form str(n): an optional "-" and the
\* digits without leading zeros.
\* ------------------------------------------------------------------------
ValueError == <<"ValueError">>

RECURSIVE StripZeros(_)
StripZeros(d) ==
  IF Len(d) > 1 /\ d[1] = "0" THEN StripZeros(From(d, 1)) ELSE d

\* int(s) for a string s
ParseInt(s) ==
  IF IsDigit(s) THEN StripZeros(s)
  ELSE IF s # <<>> /\ s[1] = "-" /\ IsDigit(From(s, 1))
       THEN (IF StripZeros(From(s, 1)) = <<"0">> THEN <<"0">>
             ELSE <<"-">> \o StripZeros(From(s, 1)))
       ELSE ValueError

Successor(c) ==
  CASE c = "0" -> "1" [] c = "1" -> "2" [] c = "2" -> "3" [] c = "3" -> "4"
    [] c = "4" -> "5" [] c = "5" -> "6" [] c = "6" -> "7" [] c = "7" -> "8"
    [] c = "8" -> "9" [] OTHER -> "0"

RECURSIVE Increment(_)
\* d + 1 for a digit sequence d
Increment(d) ==
  IF d = <<>> THEN <<"1">>
  ELSE IF d[Len(d)] = "9" THEN Increment(Upto(d, Len(d) - 1)) \o <<"0">>
       ELSE Upto(d, Len(d) - 1) \o <<Successor(d[Len(d)])>>

Zeros(n) == [k \in 1..n |-> "0"]

\* -1000000000000 - n for n >= 0
Minus1e12Minus(n) ==
  IF Len(n) <= 12 THEN <<"-", "1">> \o Zeros(12 - Len(n)) \o n
  ELSE <<"-">> \o Increment(Upto(n, Len(n) - 12)) \o From(n, Len(n) - 12)

Complement(c) ==
  CASE c = "0" -> "9" [] c = "1" -> "8" [] c = "2" -> "7" [] c = "3" -> "6"
    [] c = "4" -> "5" [] c = "5" -> "4" [] c = "6" -> "3" [] c = "7" -> "2"
    [] c = "8" -> "1" [] OTHER -> "0"

RECURSIVE Decrement(_)
\* d - 1 for a digit sequence d > 0
Decrement(d) ==
  IF d[Len(d)] = "0" THEN Decrement(Upto(d, Len(d) - 1)) \o <<"9">>
  ELSE Upto(d, Len(d) - 1) \o <<Complement(Successor(Complement(d[Len(d)])))>>

\* -1000000000000 - n for any int n
Minus1e12MinusInt(n) ==
  IF n[1] # "-" THEN Minus1e12Minus(n)
  ELSE LET m == From(n, 1)
       IN  IF Len(m) <= 12
           THEN LET pad == Zeros(12 - Len(m)) \o m
                    diff == StripZeros(Increment([k \in 1..12 |-> Complement(pad[k])]))
                IN  <<"-">> \o diff
           ELSE IF m = <<"1">> \o Zeros(12) THEN <<"0">>
           ELSE StripZeros(Decrement(Upto(m, Len(m) - 12)) \o From(m, Len(m) - 12))

\* int(f"-100{str(n)[1:]}") for n < 0
Prefix100(n) == <<"-", "1", "0", "0">> \o From(n, 1)

\* ------------------------------------------------------------------------
\* Entity lookups made on the transport (client.get_entity)
\*   "id"         an int
\*   "peer"       PeerChannel(int)
\*   "inputpeer"  InputPeerChannel(int, 0)
\*   "name"       a str
\* ------------------------------------------------------------------------
Lookup(kind, val) == [kind |-> kind, val |-> val]

TMe == <<"t.me", "/">>
TelegramMe == <<"telegram.me", "/">>
TelegramDog == <<"telegram.dog", "/">>

\* "Handle t.me links": the domain is split off, then the query string and
\* the trailing slashes
StripLink(ci) ==
  IF Contains(ci, <<"/">>)
  THEN LET rest == IF Contains(ci, TMe) THEN SplitSecond(ci, TMe)
                   ELSE IF Contains(ci, TelegramMe) THEN SplitSecond(ci, TelegramMe)
                   ELSE IF Contains(ci, TelegramDog) THEN SplitSecond(ci, TelegramDog)
                   ELSE ci
       IN  RStrip(BeforeFirstOcc(rest, <<"?">>), "/")
  ELSE ci

\* downloader.extract_channel_info
ExtractChannelInfo(input) ==
  IF Contains(input, <<"web.telegram.org">>) /\ Contains(input, <<"#">>)
  THEN AfterLastOcc(input, <<"#">>)
  ELSE IF Contains(input, <<"web.telegram.org">>) /\ Contains(input, <<"?", "p=">>)
       THEN BeforeFirstOcc(AfterLastOcc(input, <<"?", "p=">>), <<"&">>)
       ELSE StripLink(input)

\* the three lookups of the web-client branch for the int channel_id
WebLookups(channel_id) ==
  LET peer_id == IF StartsWith(channel_id, <<"-", "1", "0", "0">>)
                 THEN ParseInt(From(channel_id, 4))
                 ELSE IF StartsWith(channel_id, <<"-">>)
                      THEN ParseInt(From(channel_id, 1))
                      ELSE channel_id
  IN  IF peer_id = ValueError THEN ValueError
      ELSE <<Lookup("peer", peer_id), Lookup("inputpeer", peer_id),
             Lookup("id", Minus1e12Minus(peer_id))>>

\* TelegramDownloader.get_entity, the branch "pure channel ID (number)" for
\* the int channel_id
NumericLookups(channel_id) ==
  IF StartsWith(channel_id, <<"-", "1", "0", "0">>) THEN <<Lookup("id", channel_id)>>
  ELSE IF StartsWith(channel_id, <<"-">>)
       THEN <<Lookup("peer", ParseInt(From(channel_id, 1))),
              Lookup("id", Prefix100(channel_id))>>
       ELSE <<Lookup("id", channel_id)>>

\* TelegramDownloader.get_entity: the lookups it makes, in order, while each
\* of them fails.  A ValueError raised outside the inner try blocks reaches
\* the outer except clause, which returns None: no further lookup is made.
GetEntityLookups(input) ==
  LET isWeb == Contains(input, <<"web.telegram.org">>) /\ Contains(input, <<"#">>)
      idStr == AfterLastOcc(input, <<"#">>)
      webId == IF isWeb /\ StartsWith(idStr, <<"-">>) THEN ParseInt(idStr) ELSE ValueError
      web == IF webId = ValueError \/ webId = <<"0">> THEN <<>> ELSE WebLookups(webId)
      ci == StripLink(input)
  IN  IF web = ValueError THEN <<>>
      ELSE IF IsDigit(LStrip(ci, "-"))
           THEN (IF ParseInt(ci) = ValueError THEN web
                 ELSE web \o NumericLookups(ParseInt(ci)) \o <<Lookup("name", ci)>>)
           ELSE web \o <<Lookup("name", ci)>>

\* TelegramDownloaderGUI.download_process, "Get entity": as get_entity, but a
\* ValueError is caught next to where it is raised and the search goes on,
\* and a single-dash ID is also tried as -1000000000000 - id
GuiNumericLookups(channel_id) ==
  IF StartsWith(channel_id, <<"-", "1", "0", "0">>) THEN <<Lookup("id", channel_id)>>
  ELSE IF StartsWith(channel_id, <<"-">>)
       THEN <<Lookup("peer", ParseInt(From(channel_id, 1))),
              Lookup("id", Prefix100(channel_id)),
              Lookup("id", Minus1e12Minus(ParseInt(From(channel_id, 1))))>>
       ELSE <<Lookup("id", channel_id)>>

GuiLookups(input) ==
  LET isWeb == Contains(input, <<"web.telegram.org">>) /\ Contains(input, <<"#">>)
      idStr == AfterLastOcc(input, <<"#">>)
      webId == IF isWeb /\ StartsWith(idStr, <<"-">>) THEN ParseInt(idStr) ELSE ValueError
      web == IF webId = ValueError \/ WebLookups(webId) = ValueError THEN <<>>
             ELSE WebLookups(webId)
      ci == StripLink(input)
      num == IF IsDigit(LStrip(ci, "-")) /\ ParseInt(ci) # ValueError
             THEN GuiNumericLookups(ParseInt(ci)) ELSE <<>>
  IN  web \o num \o <<Lookup("name", ci)>>

\* MediaLinkExtractor._extract_channel_id
ExtractChannelId(url) ==
  IF Contains(url, <<"web.telegram.org">>) /\ Contains(url, <<"#">>)
  THEN AfterLastOcc(url, <<"#">>)
  ELSE IF Contains(url, TMe)
       THEN BeforeFirstOcc(AfterLastOcc(url, TMe), <<"/">>)
       ELSE url

\* MediaLinkExtractor.extract_links_from_channel, "Get the entity": a single
\* lookup; an empty channel_id or a ValueError ends the call without one
ExtractorLookups(url) ==
  LET channel_id == ExtractChannelId(url)
  IN  IF channel_id = <<>> THEN <<>>
      ELSE IF StartsWith(channel_id, <<"-">>)
           THEN (IF StartsWith(channel_id, <<"-", "1", "0", "0">>)
                 THEN (IF ParseInt(channel_id) = ValueError THEN <<>>
                       ELSE <<Lookup("id", ParseInt(channel_id))>>)
                 ELSE (IF ParseInt(<<"-", "1", "0", "0">> \o From(channel_id, 1)) = ValueError
                       THEN <<>>
                       ELSE <<Lookup("id", ParseInt(<<"-", "1", "0", "0">> \o From(channel_id, 1)))>>))
           ELSE <<Lookup("name", channel_id)>>

\* download_from_link returns False before it calls the transport
InvalidLink == [ok |-> FALSE]

\* download_from_link, "Parse the link": the channel identifier and the
\* message ID of a message link
ParseLinkWholePath(message_link) ==
  IF ~(Contains(message_link, TMe) \/ Contains(message_link, TelegramMe))
  THEN InvalidLink
  ELSE [ok |-> TRUE, private |-> FALSE,
        channel |-> StripLink(message_link), message |-> <<"1">>]
ParseLink(message_link) ==
  IF ~(Contains(message_link, TMe) \/ Contains(message_link, TelegramMe))
  THEN InvalidLink
  ELSE LET parts == SplitOn(message_link, "/")
           doms == {i \in DOMAIN parts :
                      parts[i] \in {<<"t.me">>, <<"telegram.me">>} /\ i + 1 <= Len(parts)}
       IN  IF Len(parts) < 5 \/ doms = {} THEN InvalidLink
           ELSE LET i == CHOOSE d \in doms : \A e \in doms : d <= e
                    private == parts[i + 1] = <<"c">> /\ i + 3 <= Len(parts)
                    channel == IF private THEN parts[i + 2] ELSE parts[i + 1]
                    at == IF private THEN i + 3 ELSE i + 2
                    message == IF at <= Len(parts) /\ IsDigit(parts[at])
                               THEN ParseInt(parts[at]) ELSE <<"0">>
                IN  IF channel = <<>> \/ message = <<"0">> THEN InvalidLink
                    ELSE [ok |-> TRUE, private |-> private,
                          channel |-> channel, message |-> message]

\* download_from_link, the entity lookups for a parsed link: a private
\* channel is looked up as -1000000000000 - id and then as PeerChannel(id),
\* any other channel through get_entity
LinkEntityLookups(p) ==
  IF p.private
  THEN LET channel_id == ParseInt(p.channel)
       IN  IF channel_id = ValueError THEN <<>>
           ELSE IF StartsWith(channel_id, <<"-", "1", "0", "0">>)
                THEN <<Lookup("id", channel_id), Lookup("peer", channel_id)>>
                ELSE <<Lookup("id", Minus1e12MinusInt(channel_id)),
                       Lookup("peer", channel_id)>>
  ELSE GetEntityLookups(p.channel)

\* The lookups of a front-end for a locator typed by the user: the command
\* line tools pass it through extract_channel_info to get_entity;
\* download_from_link parses a message link itself
Sites == {"cli", "gui", "extractor", "link"}

LookupsOf(site, locator) ==
  IF site = "cli" THEN GetEntityLookups(ExtractChannelInfo(locator))
  ELSE IF site = "gui" THEN GuiLookups(locator)
  ELSE IF site = "extractor" THEN ExtractorLookups(locator)
  ELSE IF ParseLink(locator) = InvalidLink THEN <<>>
  ELSE LinkEntityLookups(ParseLink(locator))

\* ------------------------------------------------------------------------
\* Media items.  A media descriptor stands for message.media:
\*   cls   "photo" (MessageMediaPhoto) or "document" (MessageMediaDocument)
\*   major, sub   the two halves of doc.mime_type ("video/mp4")
\*   named TRUE when a document attribute carries a file_name
\*   ext   the lower-cased extension of that file name ("" when none)
\* ------------------------------------------------------------------------
NoType == ""

PhotoMedia == [cls |-> "photo", major |-> "", sub |-> "", named |-> FALSE, ext |-> ""]
VideoMedia == [cls |-> "document", major |-> "video", sub |-> "mp4", named |-> FALSE, ext |-> ""]
PdfMedia == [cls |-> "document", major |-> "application", sub |-> "pdf", named |-> TRUE, ext |-> "pdf"]

MediaKinds == {VideoMedia, PdfMedia}

FilterChoices == {{}, {"video"}, {"mp4"}}

\* download_file, type detection
FileType(m) ==
  IF m.cls = "document"
  THEN LET byMime == IF m.major = "video" THEN "video" ELSE NoType
           byName == IF m.named /\ byMime = NoType THEN m.ext ELSE byMime
       IN  IF ~m.named THEN m.sub ELSE byName
  ELSE IF m.cls = "photo" THEN "photo" ELSE NoType

\* download_file, the should_download decision
ShouldDownloadLiteral(m, ft) ==
  IF ft = {} THEN TRUE
  ELSE IF FileType(m) # NoType THEN FileType(m) \in ft
  ELSE FALSE
ShouldDownload(m, ft) ==
  IF ft = {} THEN TRUE
  ELSE IF FileType(m) # NoType
       THEN \/ FileType(m) \in ft
            \/ ("video" \in ft /\ m.major = "video")
       ELSE FALSE

\* ------------------------------------------------------------------------
\* The transport.  download_media either returns or raises one of these;
\* all of them derive from Exception.
\* ------------------------------------------------------------------------
TransportErrors == {"RPCError", "ConnectionError"}

\* download_file: `except Exception as e`
CaughtOnlyRpc(e) == e = "RPCError"
Caught(e) == e \in TransportErrors

\* ------------------------------------------------------------------------
\* Batching arithmetic of download_from_channel
\* ------------------------------------------------------------------------
TotalBatchesFloor(n, b) == n \div b
TotalBatches(n, b) == (n + b - 1) \div b

BatchStart(num, b) == num * b

BatchEnd(num, b, n) == Min(BatchStart(num, b) + b, n)

\* asyncio.gather(*tasks) returns when every task has finished
GatherDoneAny(ts) == \E k \in DOMAIN ts : ts[k].st = "done"
GatherDone(ts) == \A k \in DOMAIN ts : ts[k].st = "done"

\* still_failed = [msg for msg, success in zip(messages_to_retry, results) if not success]
FailedIdx(ts) == {k \in DOMAIN ts : ~ts[k].res}

RECURSIVE PickFailed(_, _)
PickFailed(ts, k) ==
  IF k > Len(ts) THEN <<>>
  ELSE (IF ~ts[k].res THEN <<ts[k].msg>> ELSE <<>>) \o PickFailed(ts, k + 1)

StillFailedAll(ts) == [k \in DOMAIN ts |-> ts[k].msg]
StillFailed(ts) == PickFailed(ts, 1)

\* for attempt in range(1, max_retries + 1)
RoundAllowedOneMore(a, mr) == a <= mr + 1
RoundAllowed(a, mr) == a <= mr

\* ------------------------------------------------------------------------
\* File names.  A name is a sequence of tokens: "_" and "." and the pieces
\* between them.  download_file names a file date_time_id_name or
\* date_time_id.ext; the ID of message i is the token ToString(i).
\* ------------------------------------------------------------------------
NamedFile(time, id) == <<"20240101", "_", time, "_", id, "_", "report", ".", "pdf">>

PlainFile(time, id) == <<"20240101", "_", time, "_", id, ".", "mp4">>

\* download_file_if_not_exists: the test of one file name for a message ID
MatchesUnderscoreOnly(msg_id, existing_file) ==
  Contains(existing_file, <<"_", msg_id, "_">>)
Matches(msg_id, existing_file) ==
  \/ Contains(existing_file, <<"_", msg_id, "_">>)
  \/ Contains(existing_file, <<"_", msg_id, ".">>)

\* download_file_if_not_exists returns True without calling download_file
SkipIfExists(msg_id, files) == \E existing_file \in files : Matches(msg_id, existing_file)

\* the folders a resumed run may find: files of messages 1 and 2 and a file
\* of a message of another channel
ExistingFileChoices ==
  {{},
   {PlainFile("120000", "1")},
   {NamedFile("120000", "2")},
   {PlainFile("120000", "1"), NamedFile("120000", "2"), PlainFile("3", "9")}}

NewTasks(msgs) ==
  [k \in DOMAIN msgs |-> [msg |-> msgs[k], st |-> "todo", res |-> FALSE, out |-> "none"]]

VARIABLES
  mode,                  \* "channel" or "links": the front-end driving the instance
  pc,                    \* position of the orchestrating coroutine
  file_types,            \* TelegramDownloader.file_types
  downloaded_count,      \* TelegramDownloader.downloaded_count
  failed_count,          \* TelegramDownloader.failed_count
  failed_messages,       \* TelegramDownloader.failed_messages
  media_messages,        \* download_from_channel: the messages carrying media
  existing_files,        \* retry_downloads: names of the files in the download folder
  batch_size,
  batch_num,
  tasks,                 \* the coroutines handed to the current asyncio.gather
  messages_to_retry,
  attempt,
  max_retries,
  previous_failed_count,
  links,                 \* the lines of the links file
  pending_links,
  successful_links,
  failed_links,
  ledger,                \* the failure ledger file, <<>> while not written
  \* history variables
  log,                   \* per candidate: the outcomes of its transfers, in order
  status,                \* per candidate: progress of its batch-pass task
  batch_of,              \* per candidate: number of the batch that dispatched it
  batches,               \* the batches formed so far
  rounds,                \* the retry rounds of the current retry call
  stopped,               \* the user answered 'n' at a batch boundary
  errors,                \* number of transfers the transport has failed
  succeeded,             \* candidates for which download_file returned True
  calls,                 \* number of retry_failed_downloads calls made
  \* channel-reference resolution
  r_site,                \* the front-end resolving: "cli", "gui" or "extractor"
  r_locator,             \* the locator typed by the user
  r_accepts,             \* the lookups the transport can resolve
  r_chain,               \* the lookups still to be made if those before fail
  r_tried,               \* the lookups made so far, in order
  r_pc,                  \* "start", "lookup", "found" or "notfound"
  \* the GUI
  is_downloading,        \* TelegramDownloaderGUI.is_downloading
  download_button,       \* state of the Start button: "normal" or "disabled"
  stop_button,           \* state of the Stop button
  workers,               \* the download threads started so far
  ui_resets,             \* button resets queued with root.after and not yet run
  g_media,               \* number of media messages of the channel
  \* one message, for the functions applied to a single message
  message,               \* the message: its ID, its date_str and its media
  file_type,             \* download_file: the detected type
  should_download,       \* download_file: the decision of the type filter
  media_type,            \* MediaLinkExtractor._get_media_type(message)
  file_name,             \* download_file: the name of the file written
  msg_id,                \* download_file_if_not_exists: the ID looked for
  skipped,               \* download_file_if_not_exists returned without a transfer
  applied,               \* the functions applied so far, in order
  \* runs of download_from_links_file after the first
  total_links,           \* download_from_links_file: the number of links read
  runs,                  \* the runs started so far: how, and the lines read
  \* destination paths
  now,                   \* datetime.now(), the time of day to the second
  file_paths,            \* per candidate: the file_path of its last transfer
  \* one message in the GUI
  g_file_type,           \* download_process: the detected type, NoType for None
  g_transfers            \* download_process entered the branch that transfers

vars == <<mode, pc, file_types, downloaded_count, failed_count, failed_messages,
          media_messages, existing_files, batch_size, batch_num, tasks, messages_to_retry,
          attempt, max_retries, previous_failed_count, links, pending_links,
          successful_links, failed_links, ledger, log, status, batch_of,
          batches, rounds, stopped, errors, succeeded, calls,
          r_site, r_locator, r_accepts, r_chain, r_tried, r_pc,
          is_downloading, download_button, stop_button, workers, ui_resets,
          g_media,
          message, file_type, should_download, media_type, file_name, msg_id,
          skipped, applied, total_links, runs, now, file_paths,
          g_file_type, g_transfers>>

guiVars == <<is_downloading, download_button, stop_button, workers, ui_resets,
             g_media>>
oneVars == <<message, file_type, should_download, media_type, file_name, msg_id,
             skipped, applied>>
rerunVars == <<total_links, runs>>
pathVars == <<now, file_paths>>
gdVars == <<g_file_type, g_transfers>>
resVars == <<r_site, r_locator, r_accepts, r_chain, r_tried, r_pc>>
dlVars == <<file_types, downloaded_count, failed_count, failed_messages>>
retryVars == <<messages_to_retry, attempt, max_retries, previous_failed_count>>
linkVars == <<links, pending_links, successful_links, failed_links, ledger>>
inputVars == <<mode, media_messages, existing_files, batch_size, resVars, guiVars,
               oneVars, rerunVars, pathVars, gdVars>>
histVars == <<stopped, errors, succeeded, calls>>

\* Number of candidates of the run
NumCand == IF mode = "channel" THEN Len(media_messages) ELSE Len(links)

Cands == 1..NumCand

\* transfers awaiting the transport
InFlight == {k \in DOMAIN tasks : tasks[k].st = "running"}

\* ------------------------------------------------------------------------
\* Initial states: a freshly constructed instance and the input of the run
\* ------------------------------------------------------------------------
\* A line of the links file: what download_from_link finds behind it.
\*   form "ok"         the link parses, the channel and the message exist
\*        "malformed"  rejected while parsing (no message id, wrong domain)
\*        "missing"    the channel or the message is not found
LinkKinds ==
  {[form |-> "ok", media |-> m] : m \in MediaKinds}
    \cup {[form |-> "malformed", media |-> PhotoMedia],
          [form |-> "missing", media |-> PhotoMedia]}

\* the GUI is not in use
GuiIdle ==
  /\ is_downloading = FALSE
  /\ download_button = "normal"
  /\ stop_button = "disabled"
  /\ workers = <<>>
  /\ ui_resets = 0
  /\ g_media = 0

\* no function is applied to a single message
NoMessage == [id |-> "", date_str |-> <<>>, media |-> [cls |-> "none"]]

OneIdle ==
  /\ message = NoMessage
  /\ file_type = NoType
  /\ should_download = FALSE
  /\ media_type = NoType
  /\ file_name = <<>>
  /\ msg_id = ""
  /\ skipped = FALSE
  /\ applied = <<>>

\* the GUI has no message at hand
GuiOneIdle ==
  /\ g_file_type = NoType
  /\ g_transfers = FALSE

\* no destination path is followed
PathIdle ==
  /\ now = ""
  /\ file_paths = <<>>

\* one run of the instance, started by main
RerunIdle ==
  /\ total_links = 0
  /\ runs = <<>>

\* no resolution is going on
ResolverIdle ==
  /\ r_site = "cli"
  /\ r_locator = <<>>
  /\ r_accepts = {}
  /\ r_chain = <<>>
  /\ r_tried = <<>>
  /\ r_pc = "start"

InitRun ==
  /\ ResolverIdle
  /\ GuiIdle
  /\ OneIdle
  /\ mode \in {"channel", "links"}
  /\ pc = "new"
  /\ file_types \in FilterChoices
  /\ downloaded_count = 0
  /\ failed_count = 0
  /\ failed_messages = <<>>
  /\ batch_size \in 1..MaxBatch
  /\ IF mode = "channel"
     THEN /\ media_messages \in SeqsUpTo(MediaKinds, MaxItems)
          /\ links = <<>>
     ELSE /\ media_messages = <<>>
          /\ links \in SeqsUpTo(LinkKinds, MaxLinks)
  /\ batch_num = 0
  /\ tasks = <<>>
  /\ messages_to_retry = <<>>
  /\ attempt = 0
  /\ max_retries = 0
  /\ previous_failed_count = 0
  /\ pending_links = <<>>
  /\ successful_links = <<>>
  /\ failed_links = <<>>
  /\ ledger = <<>>
  /\ log = [i \in Cands |-> <<>>]
  /\ status = [i \in Cands |-> "pending"]
  /\ batch_of = [i \in Cands |-> 0]
  /\ stopped = FALSE
  /\ errors = 0
  /\ batches = <<>>
  /\ rounds = <<>>
  /\ succeeded = {}
  /\ calls = 0

\* downloader.main and batch_download_from_links: download_file is the
\* method of the class, no file of the download folder is looked at
Init ==
  /\ InitRun
  /\ RerunIdle /\ PathIdle /\ GuiOneIdle
  /\ existing_files = {}

\* The media behind candidate i
MediaOf(i) == IF mode = "channel" THEN media_messages[i] ELSE links[i].media

\* ------------------------------------------------------------------------
\* TelegramDownloader.download_from_channel
\* ------------------------------------------------------------------------
\* get_entity returned None: "Could not find channel", return
ChannelNoEntity ==
  /\ mode = "channel" /\ pc = "new"
  /\ pc' = "noentity"
  /\ UNCHANGED <<dlVars, retryVars, linkVars, inputVars, batch_num, tasks,
                 log, status, batch_of, batches, rounds, histVars>>

\* entity found, messages enumerated and filtered to those with media
ChannelStart ==
  /\ mode = "channel" /\ pc = "new"
  /\ pc' = "loop"
  /\ batch_num' = 0
  /\ UNCHANGED <<dlVars, retryVars, linkVars, inputVars, tasks,
                 log, status, batch_of, batches, rounds, histVars>>

\* one iteration of `for batch_num in range(total_batches)` up to the gather
ChannelDispatch ==
  /\ mode = "channel" /\ pc = "loop"
  /\ batch_num < TotalBatches(Len(media_messages), batch_size)
  /\ LET start_idx == BatchStart(batch_num, batch_size)
         end_idx == BatchEnd(batch_num, batch_size, Len(media_messages))
         batch == Slice([i \in 1..Len(media_messages) |-> i], start_idx, end_idx)
     IN  /\ tasks' = NewTasks(batch)
         /\ batches' = Append(batches, batch)
         /\ batch_of' = [i \in DOMAIN batch_of |->
                           IF i \in Range(batch) THEN batch_num + 1 ELSE batch_of[i]]
  /\ pc' = "gather"
  /\ UNCHANGED <<dlVars, retryVars, linkVars, inputVars, batch_num,
                 log, status, rounds, histVars>>

\* the gather of the batch returned: next iteration
ChannelBatchDone ==
  /\ mode = "channel" /\ pc = "gather"
  /\ GatherDone(tasks)
  /\ batch_num' = batch_num + 1
  /\ pc' = "loop"
  /\ UNCHANGED <<dlVars, retryVars, linkVars, inputVars, tasks,
                 log, status, batch_of, batches, rounds, histVars>>

\* the loop is exhausted: "Download summary"
ChannelSummary ==
  /\ mode = "channel" /\ pc = "loop"
  /\ ~(batch_num < TotalBatches(Len(media_messages), batch_size))
  /\ pc' = "idle"
  /\ UNCHANGED <<dlVars, retryVars, linkVars, inputVars, batch_num, tasks,
                 log, status, batch_of, batches, rounds, histVars>>

\* ------------------------------------------------------------------------
\* TelegramDownloader.download_file, as a task of a gather
\* ------------------------------------------------------------------------
InBatchPass == pc \in {"gather", "l_gather"}

SetTask(k, st, res, out) ==
  [tasks EXCEPT ![k] = [msg |-> tasks[k].msg, st |-> st, res |-> res, out |-> out]]

SetStatus(i, st) == IF InBatchPass THEN [status EXCEPT ![i] = st] ELSE status

\* The event loop runs the tasks of a gather first-in first-out: task k takes
\* its first step after the tasks before it took theirs.
IsNextToStep(k) ==
  /\ k \in DOMAIN tasks
  /\ tasks[k].st = "todo"
  /\ \A j \in 1..(k - 1) : tasks[j].st # "todo"

\* retry_downloads patches download_file: a message whose ID is found in the
\* name of an existing file is not handed to the method of the class
AlreadyDownloaded(i) == SkipIfExists(ToString(i), existing_files)

\* download_file_if_not_exists finds the message ID in an existing file name:
\* it returns True, download_file is not called
FileExists(k) ==
  /\ mode = "channel" /\ pc \in {"gather", "r_gather"}
  /\ IsNextToStep(k)
  /\ AlreadyDownloaded(tasks[k].msg)
  /\ tasks' = SetTask(k, "done", TRUE, "exists")
  /\ status' = SetStatus(tasks[k].msg, "done")
  /\ succeeded' = succeeded \cup {tasks[k].msg}
  /\ UNCHANGED <<pc, dlVars, retryVars, linkVars, inputVars, batch_num,
                 log, batch_of, batches, rounds, stopped, errors, calls>>

\* download_file up to `await self.client.download_media`: the type filter
\* accepts the item and the transfer is started
FileStart(k) ==
  /\ mode = "channel" /\ pc \in {"gather", "r_gather"}
  /\ IsNextToStep(k)
  /\ ~AlreadyDownloaded(tasks[k].msg)
  /\ ShouldDownload(MediaOf(tasks[k].msg), file_types)
  /\ tasks' = SetTask(k, "running", FALSE, "none")
  /\ status' = SetStatus(tasks[k].msg, "running")
  /\ UNCHANGED <<pc, dlVars, retryVars, linkVars, inputVars, batch_num,
                 log, batch_of, batches, rounds, histVars>>

\* download_file of an item the type filter rejects: no await, returns False
FileSkip(k) ==
  /\ mode = "channel" /\ pc \in {"gather", "r_gather"}
  /\ IsNextToStep(k)
  /\ ~AlreadyDownloaded(tasks[k].msg)
  /\ ~ShouldDownload(MediaOf(tasks[k].msg), file_types)
  /\ tasks' = SetTask(k, "done", FALSE, "skip")
  /\ status' = SetStatus(tasks[k].msg, "done")
  /\ UNCHANGED <<pc, dlVars, retryVars, linkVars, inputVars, batch_num,
                 log, batch_of, batches, rounds, histVars>>

\* download_media returned: downloaded_count += 1, return True
FileOk(k) ==
  /\ mode = "channel" /\ pc \in {"gather", "r_gather"}
  /\ k \in InFlight
  /\ tasks' = SetTask(k, "done", TRUE, "ok")
  /\ status' = SetStatus(tasks[k].msg, "done")
  /\ downloaded_count' = downloaded_count + 1
  /\ succeeded' = succeeded \cup {tasks[k].msg}
  /\ log' = [log EXCEPT ![tasks[k].msg] = Append(@, "ok")]
  /\ UNCHANGED <<pc, file_types, failed_count, failed_messages, retryVars,
                 linkVars, inputVars, batch_num, batch_of, batches, rounds, stopped,
                 errors, calls>>

\* download_media raised e: the except clause counts and records the failure
\* and download_file returns False; an exception it does not catch leaves
\* download_file and the gather re-raises it into the run
FileError(k, e) ==
  /\ mode = "channel" /\ pc \in {"gather", "r_gather"}
  /\ k \in InFlight
  /\ errors < MaxErrors
  /\ errors' = errors + 1
  /\ log' = [log EXCEPT ![tasks[k].msg] = Append(@, "err")]
  /\ status' = SetStatus(tasks[k].msg, "done")
  /\ IF Caught(e)
     THEN /\ tasks' = SetTask(k, "done", FALSE, "err")
          /\ failed_count' = failed_count + 1
          /\ failed_messages' = Append(failed_messages, tasks[k].msg)
          /\ pc' = pc
     ELSE /\ tasks' = SetTask(k, "done", FALSE, "raised")
          /\ pc' = "raised"
          /\ UNCHANGED <<failed_count, failed_messages>>
  /\ UNCHANGED <<file_types, downloaded_count, retryVars, linkVars, inputVars,
                 batch_num, batch_of, batches, rounds, stopped, succeeded, calls>>

\* ------------------------------------------------------------------------
\* TelegramDownloader.retry_failed_downloads
\* ------------------------------------------------------------------------
\* "No failed downloads to retry."
RetryNothing ==
  /\ mode = "channel" /\ pc = "idle" /\ calls < MaxCalls
  /\ failed_messages = <<>>
  /\ calls' = calls + 1
  /\ UNCHANGED <<pc, dlVars, retryVars, linkVars, inputVars, batch_num, tasks,
                 log, status, batch_of, batches, rounds, stopped, errors,
                 succeeded>>

\* the call up to the retry loop: the failed list is copied and cleared, the
\* failed counter is reset
RetryCallKeepsCount(mr) ==
  /\ mode = "channel" /\ pc = "idle" /\ calls < MaxCalls
  /\ failed_messages # <<>>
  /\ calls' = calls + 1
  /\ max_retries' = mr
  /\ messages_to_retry' = failed_messages
  /\ failed_messages' = <<>>
  /\ previous_failed_count' = failed_count
  /\ attempt' = 1
  /\ rounds' = <<>>
  /\ pc' = "r_loop"
  /\ UNCHANGED <<file_types, downloaded_count, failed_count, linkVars, inputVars,
                 batch_num, tasks, log, status, batch_of, batches, stopped, errors,
                 succeeded>>
RetryCall(mr) ==
  /\ mode = "channel" /\ pc = "idle" /\ calls < MaxCalls
  /\ failed_messages # <<>>
  /\ calls' = calls + 1
  /\ max_retries' = mr
  /\ messages_to_retry' = failed_messages
  /\ failed_messages' = <<>>
  /\ previous_failed_count' = failed_count
  /\ failed_count' = 0
  /\ attempt' = 1
  /\ rounds' = <<>>
  /\ pc' = "r_loop"
  /\ UNCHANGED <<file_types, downloaded_count, linkVars, inputVars, batch_num,
                 tasks, log, status, batch_of, batches, stopped, errors, succeeded>>

\* one iteration of `for attempt in range(1, max_retries + 1)` up to the gather
RetryDispatch ==
  /\ mode = "channel" /\ pc = "r_loop"
  /\ RoundAllowed(attempt, max_retries)
  /\ messages_to_retry # <<>>
  /\ tasks' = NewTasks(messages_to_retry)
  /\ pc' = "r_gather"
  /\ UNCHANGED <<dlVars, retryVars, linkVars, inputVars, batch_num,
                 log, status, batch_of, batches, rounds, histVars>>

\* the gather of the round returned: still_failed is computed; break when it
\* is empty, else it becomes the list of the next attempt (after the sleep)
RetryRoundDone ==
  /\ mode = "channel" /\ pc = "r_gather"
  /\ GatherDone(tasks)
  /\ rounds' = Append(rounds, [items |-> [k \in DOMAIN tasks |-> tasks[k].msg],
                                outs |-> [k \in DOMAIN tasks |-> tasks[k].out]])
  /\ LET still_failed == StillFailed(tasks)
     IN  IF still_failed = <<>>
         THEN /\ pc' = "idle"
              /\ UNCHANGED <<messages_to_retry, attempt>>
         ELSE /\ messages_to_retry' = still_failed
              /\ attempt' = attempt + 1
              /\ pc' = "r_loop"
  /\ UNCHANGED <<dlVars, max_retries, previous_failed_count, linkVars, inputVars,
                 batch_num, tasks, log, status, batch_of, batches, histVars>>

\* the loop is exhausted: "Retry summary"
RetryReport ==
  /\ mode = "channel" /\ pc = "r_loop"
  /\ ~(RoundAllowed(attempt, max_retries) /\ messages_to_retry # <<>>)
  /\ pc' = "idle"
  /\ UNCHANGED <<dlVars, retryVars, linkVars, inputVars, batch_num, tasks,
                 log, status, batch_of, batches, rounds, histVars>>

\* main (downloader.py, retry_downloads.py): the run has returned, and so has
\* the retry call if the user asked for one; the client is disconnected and
\* the process finishes.  Nothing is written.
ChannelExit ==
  /\ mode = "channel" /\ pc \in {"idle", "noentity"}
  /\ pc' = "exit"
  /\ UNCHANGED <<dlVars, retryVars, linkVars, inputVars, batch_num, tasks,
                 log, status, batch_of, batches, rounds, histVars>>

\* ------------------------------------------------------------------------
\* BatchLinkDownloader.download_from_links_file
\* ------------------------------------------------------------------------
\* _save_failed_links, called when failed_links is not empty
SaveFailedLinksNever(fl, old) == old
SaveFailedLinks(fl, old) == IF fl # <<>> THEN fl ELSE old

\* "Continue to next batch?" is asked every 3 batches while links are pending
AskEvery == 3

AsksUser(pending, num) == pending # <<>> /\ num % AskEvery = 0

\* the links file cannot be read: return
LinkNoFile ==
  /\ mode = "links" /\ pc = "new"
  /\ pc' = "nofile"
  /\ UNCHANGED <<dlVars, retryVars, linkVars, inputVars, batch_num, tasks,
                 log, status, batch_of, batches, rounds, histVars>>

\* the file is read; pending_links = links.copy()
LinkStart ==
  /\ mode = "links" /\ pc = "new"
  /\ pending_links' = [i \in 1..Len(links) |-> i]
  /\ batch_num' = 0
  /\ pc' = "l_loop"
  /\ UNCHANGED <<dlVars, retryVars, links, successful_links, failed_links, ledger,
                 inputVars, tasks, log, status, batch_of, batches, rounds, histVars>>

\* one iteration of `while self.pending_links` up to the gather
LinkDispatchDropsOne ==
  /\ mode = "links" /\ pc = "l_loop"
  /\ pending_links # <<>>
  /\ batch_num' = batch_num + 1
  /\ LET current_batch == Slice(pending_links, 0, batch_size)
     IN  /\ tasks' = NewTasks(current_batch)
         /\ batches' = Append(batches, current_batch)
         /\ batch_of' = [i \in DOMAIN batch_of |->
                           IF i \in Range(current_batch) THEN batch_num + 1
                           ELSE batch_of[i]]
  /\ pending_links' = Slice(pending_links, batch_size + 1, Len(pending_links))
  /\ pc' = "l_gather"
  /\ UNCHANGED <<dlVars, retryVars, links, successful_links, failed_links, ledger,
                 inputVars, log, status, rounds, histVars>>
LinkDispatch ==
  /\ mode = "links" /\ pc = "l_loop"
  /\ pending_links # <<>>
  /\ batch_num' = batch_num + 1
  /\ LET current_batch == Slice(pending_links, 0, batch_size)
     IN  /\ tasks' = NewTasks(current_batch)
         /\ batches' = Append(batches, current_batch)
         /\ batch_of' = [i \in DOMAIN batch_of |->
                           IF i \in Range(current_batch) THEN batch_num + 1
                           ELSE batch_of[i]]
  /\ pending_links' = Slice(pending_links, batch_size, Len(pending_links))
  /\ pc' = "l_gather"
  /\ UNCHANGED <<dlVars, retryVars, links, successful_links, failed_links, ledger,
                 inputVars, log, status, rounds, histVars>>

\* the gather returned, progress is printed and the user is not asked, or
\* answers anything but 'n': next iteration
LinkBatchDone ==
  /\ mode = "links" /\ pc = "l_gather"
  /\ GatherDone(tasks)
  /\ pc' = "l_loop"
  /\ UNCHANGED <<dlVars, retryVars, linkVars, inputVars, batch_num, tasks,
                 log, status, batch_of, batches, rounds, histVars>>

\* the gather returned and the user answers 'n': break, final report, the
\* failed links are saved
LinkUserStop ==
  /\ mode = "links" /\ pc = "l_gather"
  /\ GatherDone(tasks)
  /\ AsksUser(pending_links, batch_num)
  /\ stopped' = TRUE
  /\ ledger' = SaveFailedLinks(failed_links, ledger)
  /\ pc' = "idle"
  /\ UNCHANGED <<dlVars, retryVars, links, pending_links, successful_links,
                 failed_links, inputVars, batch_num, tasks, log, status,
                 batch_of, batches, rounds, errors, succeeded, calls>>

\* pending_links is empty: final report, the failed links are saved
LinkSummary ==
  /\ mode = "links" /\ pc = "l_loop"
  /\ pending_links = <<>>
  /\ ledger' = SaveFailedLinks(failed_links, ledger)
  /\ pc' = "idle"
  /\ UNCHANGED <<dlVars, retryVars, links, pending_links, successful_links,
                 failed_links, inputVars, batch_num, tasks, log, status,
                 batch_of, batches, rounds, histVars>>

\* ------------------------------------------------------------------------
\* BatchLinkDownloader.process_link, as a task of a gather; it awaits
\* download_from_link and appends the link to one of the two lists
\* ------------------------------------------------------------------------
LinkTaskVars == <<pc, retryVars, links, pending_links, ledger, inputVars,
                  batch_num, batch_of, batches, rounds, stopped, calls>>

\* download_from_link rejects the link while parsing it: False, no await
LinkParseFail(k) ==
  /\ mode = "links" /\ pc = "l_gather"
  /\ IsNextToStep(k)
  /\ links[tasks[k].msg].form = "malformed"
  /\ tasks' = SetTask(k, "done", FALSE, "skip")
  /\ status' = SetStatus(tasks[k].msg, "done")
  /\ failed_links' = Append(failed_links, tasks[k].msg)
  /\ UNCHANGED <<LinkTaskVars, dlVars, successful_links, log, errors, succeeded>>

\* the link parses: download_from_link awaits the entity and the message
LinkFetch(k) ==
  /\ mode = "links" /\ pc = "l_gather"
  /\ IsNextToStep(k)
  /\ links[tasks[k].msg].form # "malformed"
  /\ tasks' = SetTask(k, "fetching", FALSE, "none")
  /\ status' = SetStatus(tasks[k].msg, "fetching")
  /\ UNCHANGED <<LinkTaskVars, dlVars, successful_links, failed_links, log,
                 errors, succeeded>>

\* no entity or no message: download_from_link returns False
LinkMissing(k) ==
  /\ mode = "links" /\ pc = "l_gather"
  /\ k \in DOMAIN tasks /\ tasks[k].st = "fetching"
  /\ links[tasks[k].msg].form = "missing"
  /\ tasks' = SetTask(k, "done", FALSE, "skip")
  /\ status' = SetStatus(tasks[k].msg, "done")
  /\ failed_links' = Append(failed_links, tasks[k].msg)
  /\ UNCHANGED <<LinkTaskVars, dlVars, successful_links, log, errors, succeeded>>

\* the message is fetched and download_file starts its transfer
LinkFileStart(k) ==
  /\ mode = "links" /\ pc = "l_gather"
  /\ k \in DOMAIN tasks /\ tasks[k].st = "fetching"
  /\ links[tasks[k].msg].form = "ok"
  /\ ShouldDownload(MediaOf(tasks[k].msg), file_types)
  /\ tasks' = SetTask(k, "running", FALSE, "none")
  /\ status' = SetStatus(tasks[k].msg, "running")
  /\ UNCHANGED <<LinkTaskVars, dlVars, successful_links, failed_links, log,
                 errors, succeeded>>

\* the message is fetched and download_file rejects its type: False
LinkFileSkip(k) ==
  /\ mode = "links" /\ pc = "l_gather"
  /\ k \in DOMAIN tasks /\ tasks[k].st = "fetching"
  /\ links[tasks[k].msg].form = "ok"
  /\ ~ShouldDownload(MediaOf(tasks[k].msg), file_types)
  /\ tasks' = SetTask(k, "done", FALSE, "skip")
  /\ status' = SetStatus(tasks[k].msg, "done")
  /\ failed_links' = Append(failed_links, tasks[k].msg)
  /\ UNCHANGED <<LinkTaskVars, dlVars, successful_links, log, errors, succeeded>>

\* download_media returned: download_file and download_from_link return True
LinkFileOk(k) ==
  /\ mode = "links" /\ pc = "l_gather"
  /\ k \in InFlight
  /\ tasks' = SetTask(k, "done", TRUE, "ok")
  /\ status' = SetStatus(tasks[k].msg, "done")
  /\ downloaded_count' = downloaded_count + 1
  /\ succeeded' = succeeded \cup {tasks[k].msg}
  /\ successful_links' = Append(successful_links, tasks[k].msg)
  /\ log' = [log EXCEPT ![tasks[k].msg] = Append(@, "ok")]
  /\ UNCHANGED <<LinkTaskVars, file_types, failed_count, failed_messages,
                 failed_links, errors>>

\* download_media raised e: download_file catches it, counts and records the
\* failure and returns False (what it does not catch, download_from_link and
\* process_link catch in turn); process_link appends the link to failed_links
LinkFileError(k, e) ==
  /\ mode = "links" /\ pc = "l_gather"
  /\ k \in InFlight
  /\ errors < MaxErrors
  /\ errors' = errors + 1
  /\ tasks' = SetTask(k, "done", FALSE, "err")
  /\ status' = SetStatus(tasks[k].msg, "done")
  /\ log' = [log EXCEPT ![tasks[k].msg] = Append(@, "err")]
  /\ IF Caught(e)
     THEN /\ failed_count' = failed_count + 1
          /\ failed_messages' = Append(failed_messages, tasks[k].msg)
     ELSE UNCHANGED <<failed_count, failed_messages>>
  /\ failed_links' = Append(failed_links, tasks[k].msg)
  /\ UNCHANGED <<LinkTaskVars, file_types, downloaded_count, successful_links,
                 succeeded>>

\* ------------------------------------------------------------------------
Next ==
  \/ ChannelNoEntity
  \/ ChannelStart
  \/ ChannelDispatch
  \/ ChannelBatchDone
  \/ ChannelSummary
  \/ \E k \in 1..MaxLinks : FileStart(k)
  \/ \E k \in 1..MaxLinks : FileSkip(k)
  \/ \E k \in 1..MaxLinks : FileOk(k)
  \/ \E k \in 1..MaxLinks, e \in TransportErrors : FileError(k, e)
  \/ RetryNothing
  \/ \E mr \in 0..MaxRetries : RetryCall(mr)
  \/ RetryDispatch
  \/ RetryRoundDone
  \/ RetryReport
  \/ ChannelExit
  \/ LinkNoFile
  \/ LinkStart
  \/ LinkDispatch
  \/ LinkBatchDone
  \/ LinkUserStop
  \/ LinkSummary
  \/ \E k \in 1..MaxLinks : LinkParseFail(k)
  \/ \E k \in 1..MaxLinks : LinkFetch(k)
  \/ \E k \in 1..MaxLinks : LinkMissing(k)
  \/ \E k \in 1..MaxLinks : LinkFileStart(k)
  \/ \E k \in 1..MaxLinks : LinkFileSkip(k)
  \/ \E k \in 1..MaxLinks : LinkFileOk(k)
  \/ \E k \in 1..MaxLinks, e \in TransportErrors : LinkFileError(k, e)

Spec == Init /\ [][Next]_vars

\* ------------------------------------------------------------------------
\* retry_downloads.retry_failed_downloads: a channel run and its retry with
\* download_file replaced by download_file_if_not_exists
\* ------------------------------------------------------------------------
InitResume ==
  /\ InitRun
  /\ RerunIdle /\ PathIdle /\ GuiOneIdle
  /\ mode = "channel"
  /\ existing_files \in ExistingFileChoices

NextResume ==
  \/ ChannelNoEntity
  \/ ChannelStart
  \/ ChannelDispatch
  \/ ChannelBatchDone
  \/ ChannelSummary
  \/ \E k \in 1..MaxItems : FileExists(k)
  \/ \E k \in 1..MaxItems : FileStart(k)
  \/ \E k \in 1..MaxItems : FileSkip(k)
  \/ \E k \in 1..MaxItems : FileOk(k)
  \/ \E k \in 1..MaxItems, e \in TransportErrors : FileError(k, e)
  \/ RetryNothing
  \/ \E mr \in 0..MaxRetries : RetryCall(mr)
  \/ RetryDispatch
  \/ RetryRoundDone
  \/ RetryReport
  \/ ChannelExit

SpecResume == InitResume /\ [][NextResume]_vars

\* ------------------------------------------------------------------------
\* Properties of the runs
\* ------------------------------------------------------------------------
Last(s) == s[Len(s)]

\* the orchestrating coroutine has returned
Returned == pc \in {"idle", "noentity", "nofile", "exit"}

\* the batch pass of the run has reached its summary, no retry call made yet
RunEnded == pc = "idle" /\ calls = 0

Ceil(n, b) == IF n % b = 0 THEN n \div b ELSE (n \div b) + 1

\* C1: in a channel run no transport error leaves download_file: the run is
\* never aborted by an exception, an item whose transfer failed is in
\* failed_messages, the run never gets stuck before its summary, and at the
\* summary every candidate of every batch has been processed.
C1_FailureIsolation ==
  mode = "channel" =>
    /\ pc # "raised"
    /\ \A k \in DOMAIN tasks : tasks[k].out # "raised"
    /\ calls = 0 =>
         \A i \in Cands : (log[i] # <<>> /\ Last(log[i]) = "err")
                              => i \in Range(failed_messages)
    /\ ~Returned => ENABLED Next
    /\ RunEnded =>
         /\ \A i \in Cands : status[i] = "done"
         /\ \A i \in Cands :
              (ShouldDownload(MediaOf(i), file_types) /\ ~AlreadyDownloaded(i))
                => log[i] # <<>>

\* a run of two batches reached its summary although a transfer of the first
\* batch failed: the other item of that batch and the later batch were
\* transferred
C1_Witness ==
  /\ mode = "channel" /\ RunEnded
  /\ \E i, j, l \in Cands :
       /\ i # j /\ batch_of[i] = 1 /\ batch_of[j] = 1 /\ batch_of[l] = 2
       /\ log[i] = <<"err">> /\ log[j] = <<"ok">> /\ log[l] = <<"ok">>

\* C2 (as claimed): at the end of an uninterrupted run on a fresh instance
\* whose candidates all exist, the succeeded and the failed items are
\* disjoint and their union is the set of candidates passing the type filter.
C2_Partition ==
  (RunEnded /\ ~stopped /\ \A i \in Cands : mode = "links" => links[i].form = "ok") =>
    LET S == IF mode = "channel" THEN succeeded ELSE Range(successful_links)
        F == IF mode = "channel" THEN Range(failed_messages) ELSE Range(failed_links)
    IN  /\ S \cap F = {}
        /\ S \cup F = {i \in Cands : ShouldDownload(MediaOf(i), file_types)}

\* C3: no task of a later batch has started while a task of an earlier batch
\* has not finished.
C3_BatchBarrier ==
  \A i, j \in Cands :
    (batch_of[i] # 0 /\ batch_of[i] < batch_of[j] /\ status[j] # "pending")
      => status[i] = "done"

\* a transfer of the second batch is in flight
C3_Witness ==
  \E j \in Cands : batch_of[j] = 2 /\ status[j] = "running"

\* C4 (as claimed): at every moment, retry rounds included, at most
\* batch_size transfers are in flight.
C4_InFlightBound == Cardinality(InFlight) <= batch_size

\* C5: the batches formed are, in order, the consecutive slices of size
\* batch_size of the candidate list (the last one possibly shorter); a run
\* the user does not stop forms ceil(n / batch_size) of them; 23 candidates
\* in batches of 10 give the sizes 10, 10, 3.
ExpectedBatch(k, n, b) ==
  [j \in 1..(IF k * b <= n THEN b ELSE n - (k - 1) * b) |-> (k - 1) * b + j]

C5_Batching ==
  /\ Len(batches) <= Ceil(NumCand, batch_size)
  /\ \A k \in DOMAIN batches : batches[k] = ExpectedBatch(k, NumCand, batch_size)
  /\ (pc = "idle" /\ ~stopped) => Len(batches) = Ceil(NumCand, batch_size)
  /\ (pc = "idle" /\ ~stopped) => \A i \in Cands : batch_of[i] = Ceil(i, batch_size)
  /\ TotalBatches(23, 10) = 3
  /\ [k \in 1..3 |-> BatchEnd(k - 1, 10, 23) - BatchStart(k - 1, 10)] = <<10, 10, 3>>
  /\ LET p == [i \in 1..23 |-> i]
     IN  /\ Len(Slice(p, 0, 10)) = 10
         /\ Len(Slice(Slice(p, 10, 23), 0, 10)) = 10
         /\ Slice(Slice(Slice(p, 10, 23), 10, 13), 0, 10) = <<21, 22, 23>>

\* a run of three candidates in batches of two has formed its short last batch
C5_Witness ==
  /\ pc = "idle" /\ NumCand = 3 /\ batch_size = 2
  /\ batches = <<(<<1, 2>>), (<<3>>)>>

\* C6 (as claimed): after a channel run, when the transport fails an item
\* twice and then succeeds and every other transfer ends in success,
\* retry_failed_downloads(3) ends with the item downloaded and failed_count = 0.
C6_RetryConverges ==
  \A i \in Cands :
    ( /\ mode = "channel" /\ pc = "idle" /\ calls = 1 /\ max_retries = 3
      /\ rounds # <<>>
      /\ log[i] = <<"err", "err", "ok">>
      /\ \A j \in Cands : log[j] # <<>> => Last(log[j]) = "ok" )
    => (i \in succeeded /\ failed_count = 0)

\* C7: a retry call runs at most max_retries rounds, never a round without
\* items, and each round after the first attempts exactly the items whose
\* transfer in the round before did not succeed.
RECURSIVE NotOkFrom(_, _)
NotOkFrom(r, k) ==
  IF k > Len(r.items) THEN <<>>
  ELSE (IF r.outs[k] # "ok" THEN <<r.items[k]>> ELSE <<>>) \o NotOkFrom(r, k + 1)

NotOk(r) == NotOkFrom(r, 1)

C7_RetryRounds ==
  /\ Len(rounds) + (IF pc = "r_gather" THEN 1 ELSE 0) <= max_retries
  /\ \A r \in DOMAIN rounds : rounds[r].items # <<>>
  /\ \A r \in DOMAIN rounds : r > 1 => rounds[r].items = NotOk(rounds[r - 1])
  /\ (pc = "r_gather" /\ rounds # <<>>) =>
       /\ tasks # <<>>
       /\ [k \in DOMAIN tasks |-> tasks[k].msg] = NotOk(Last(rounds))

\* a call with max_retries = 2 has run its two rounds, and an item dropped
\* out of the retry set after the first round
C7_Witness ==
  /\ pc = "idle" /\ max_retries = 2 /\ Len(rounds) = 2
  /\ Len(rounds[1].items) = 2 /\ Len(rounds[2].items) = 1

\* ------------------------------------------------------------------------
\* Channel-reference resolution against the transport
\* ------------------------------------------------------------------------
Https == <<"https:", "/", "/">>

\* dash-stripped channel IDs: 1, 4 and 10 digits
IdSamples ==
  {<<"5">>, <<"1", "2", "3", "4">>,
   <<"1", "2", "3", "4", "5", "6", "7", "8", "9", "0">>}

\* IDs that carry the -100 prefix once a dash is put in front
PrefixedSamples ==
  {<<"1", "0", "0", "7">>,
   <<"1", "0", "0", "1", "2", "3", "4", "5", "6", "7", "8", "9", "0">>}

SingleDashLocators == {<<"-">> \o d : d \in IdSamples}

NumericLocators ==
  IdSamples \cup SingleDashLocators \cup {<<"-">> \o d : d \in PrefixedSamples}

WebLocators ==
  {Https \o <<"web.telegram.org", "/", "k", "/", "#", "-">> \o d :
     d \in IdSamples \cup PrefixedSamples}

UsernameLocators ==
  {<<"chan">>,
   <<"t.me", "/", "chan">>,
   Https \o <<"t.me", "/", "chan">>,
   Https \o <<"t.me", "/", "chan", "/">>}

PrivateLinkLocators ==
  {Https \o <<"t.me", "/", "c", "/">> \o d \o <<"/", "7">> : d \in IdSamples}

ExampleLink == Https \o <<"t.me", "/", "examplechan", "/", "1", "2", "3">>

OtherLocators ==
  {ExampleLink,
   Https \o <<"t.me", "/", "chan", "/", "7">>,
   Https \o <<"t.me", "/", "chan", "/", "x">>,
   Https \o <<"telegram.me", "/", "c", "/", "-", "1", "0", "0", "7", "/", "0", "7">>,
   Https \o <<"telegram.me", "/", "chan", "?", "x">>,
   Https \o <<"web.telegram.org", "/", "k", "/", "?", "p=", "-", "5", "&", "x">>,
   <<"-", "-", "5">>,
   <<"-", "0", "5">>,
   Https \o <<"web.telegram.org", "/", "k", "/", "#", "-", "1", "0", "0">>}

\* a message link to message 7 of the public channel chan on each domain,
\* as it is, with a trailing slash and with a query string
LinkDomains == {<<"t.me">>, <<"telegram.me">>, <<"telegram.dog">>}

MessageLink(d) == Https \o d \o <<"/", "chan", "/", "7">>

LinkVariants ==
  UNION {{MessageLink(d), MessageLink(d) \o <<"/">>, MessageLink(d) \o <<"?", "x">>} :
           d \in LinkDomains}

Locators ==
  NumericLocators \cup WebLocators \cup UsernameLocators
    \cup PrivateLinkLocators \cup OtherLocators \cup LinkVariants

\* the dash-stripped ID written in a locator, <<>> when it has none
RECURSIVE LastDigits(_)
LastDigits(s) ==
  IF s # <<>> /\ s[Len(s)] \in Digits
  THEN LastDigits(Upto(s, Len(s) - 1)) \o <<s[Len(s)]>>
  ELSE <<>>

IdIn(locator) ==
  IF locator \in PrivateLinkLocators THEN LastDigits(Upto(locator, Len(locator) - 2))
  ELSE IF locator \in NumericLocators \cup WebLocators THEN LastDigits(locator)
  ELSE <<>>

\* The lookups a transport may be able to resolve for a locator: those any
\* front-end makes for it and every encoding of the channel it names
Encodings(locator) ==
  IF IdIn(locator) = <<>> THEN {Lookup("name", <<"chan">>)}
  ELSE {Lookup("id", IdIn(locator)),
        Lookup("id", <<"-">> \o IdIn(locator)),
        Lookup("peer", IdIn(locator)),
        Lookup("id", Minus1e12Minus(IdIn(locator)))}

TransportKeys(locator) ==
  Encodings(locator)
    \cup UNION {Range(LookupsOf(site, locator)) : site \in Sites}

\* the state of the runs while only a resolution is modelled
InstanceIdle ==
  /\ mode = "channel"
  /\ pc = "new"
  /\ downloaded_count = 0
  /\ failed_count = 0
  /\ failed_messages = <<>>
  /\ media_messages = <<>>
  /\ batch_size = 1
  /\ batch_num = 0
  /\ tasks = <<>>
  /\ messages_to_retry = <<>>
  /\ attempt = 0
  /\ max_retries = 0
  /\ previous_failed_count = 0
  /\ links = <<>>
  /\ pending_links = <<>>
  /\ successful_links = <<>>
  /\ failed_links = <<>>
  /\ ledger = <<>>
  /\ log = <<>>
  /\ status = <<>>
  /\ batch_of = <<>>
  /\ batches = <<>>
  /\ rounds = <<>>
  /\ stopped = FALSE
  /\ errors = 0
  /\ succeeded = {}
  /\ calls = 0

RunIdle ==
  /\ InstanceIdle
  /\ file_types = {}
  /\ existing_files = {}

otherRunVars == <<mode, pc, media_messages, existing_files, batch_size, batch_num, tasks,
                  retryVars, linkVars, log, status, batch_of, batches, rounds,
                  stopped, errors, succeeded, calls, guiVars, oneVars, rerunVars, pathVars, gdVars>>

runVars == <<dlVars, otherRunVars>>

ResolveInit ==
  /\ RunIdle
  /\ GuiIdle
  /\ OneIdle
  /\ RerunIdle /\ PathIdle /\ GuiOneIdle
  /\ r_site \in Sites
  /\ r_locator \in Locators
  /\ r_accepts \in SUBSET TransportKeys(r_locator)
  /\ r_chain = <<>>
  /\ r_tried = <<>>
  /\ r_pc = "start"

\* the front-end parses the locator; what follows is its chain of try
\* blocks.  download_from_link returns False for a link it cannot parse.
ResolveStart ==
  /\ r_pc = "start"
  /\ r_chain' = LookupsOf(r_site, r_locator)
  /\ r_pc' = IF r_site = "link" /\ ParseLink(r_locator) = InvalidLink
             THEN "invalid" ELSE "lookup"
  /\ UNCHANGED <<runVars, r_site, r_locator, r_accepts, r_tried>>

\* client.get_entity raises: the next except clause goes on to the next lookup
LookupFails ==
  /\ r_pc = "lookup" /\ r_chain # <<>>
  /\ Head(r_chain) \notin r_accepts
  /\ r_tried' = Append(r_tried, Head(r_chain))
  /\ r_chain' = Tail(r_chain)
  /\ UNCHANGED <<runVars, r_site, r_locator, r_accepts, r_pc>>

\* client.get_entity returns the entity
LookupSucceeds ==
  /\ r_pc = "lookup" /\ r_chain # <<>>
  /\ Head(r_chain) \in r_accepts
  /\ r_tried' = Append(r_tried, Head(r_chain))
  /\ r_pc' = "found"
  /\ UNCHANGED <<runVars, r_site, r_locator, r_accepts, r_chain>>

\* every lookup failed (or a ValueError ended the search): no entity
ResolveFailsGoesOn ==
  /\ r_pc = "lookup" /\ r_chain = <<>>
  /\ r_pc' = "found"
  /\ UNCHANGED <<runVars, r_site, r_locator, r_accepts, r_chain, r_tried>>
ResolveFails ==
  /\ r_pc = "lookup" /\ r_chain = <<>>
  /\ r_pc' = "notfound"
  /\ UNCHANGED <<runVars, r_site, r_locator, r_accepts, r_chain, r_tried>>

\* download_from_channel (and the GUI and the extractor alike): the entity
\* is found and its messages are enumerated; the batch loop follows
Enumerate ==
  /\ r_pc = "found" /\ r_site # "link"
  /\ r_tried' = Append(r_tried, Lookup("iter_messages", <<>>))
  /\ r_pc' = "enumerated"
  /\ UNCHANGED <<runVars, r_site, r_locator, r_accepts, r_chain>>

\* download_from_link: client.get_messages(entity, ids=message_id) returns
\* the message, or nothing and download_from_link returns False
FetchMessage(exists) ==
  /\ r_pc = "found" /\ r_site = "link"
  /\ r_tried' = Append(r_tried, Lookup("message", ParseLink(r_locator).message))
  /\ r_pc' = IF exists THEN "fetched" ELSE "nomessage"
  /\ UNCHANGED <<runVars, r_site, r_locator, r_accepts, r_chain>>

\* download_from_link: download_file(message) for a message carrying a video;
\* the transfer returns or raises
TransferMessage(e) ==
  /\ r_pc = "fetched" /\ r_site = "link"
  /\ ShouldDownload(VideoMedia, file_types)
  /\ r_tried' = Append(r_tried, Lookup("media", ParseLink(r_locator).message))
  /\ IF e = "none"
     THEN /\ downloaded_count' = downloaded_count + 1
          /\ r_pc' = "done"
          /\ UNCHANGED <<file_types, failed_count, failed_messages>>
     ELSE /\ failed_count' = failed_count + 1
          /\ failed_messages' = Append(failed_messages, ParseLink(r_locator).message)
          /\ r_pc' = "failed"
          /\ UNCHANGED <<file_types, downloaded_count>>
  /\ UNCHANGED <<otherRunVars, r_site, r_locator, r_accepts, r_chain>>

ResolveNext ==
  \/ ResolveStart
  \/ LookupFails
  \/ LookupSucceeds
  \/ ResolveFails
  \/ Enumerate
  \/ \E exists \in BOOLEAN : FetchMessage(exists)
  \/ \E e \in {"none"} \cup TransportErrors : TransferMessage(e)

SpecResolve == ResolveInit /\ [][ResolveNext]_vars

\* ------------------------------------------------------------------------
\* Properties of the resolution
\* ------------------------------------------------------------------------
Resolved == r_pc \in {"found", "notfound"}

\* the dash-stripped ID of the locator being resolved
strippedId == IdIn(r_locator)

\* the three encodings of the channel a single-dash locator names; the value
\* as given counts whether it is looked up as a number or as a string
GivenEncodings == {Lookup("id", r_locator), Lookup("name", r_locator)}

PeerEncoding == Lookup("peer", strippedId)

SupergroupEncoding == Lookup("id", Minus1e12Minus(strippedId))

TriedOneOf(encodings) == encodings \cap Range(r_tried) # {}

\* C8: for a bare single-dash numeric locator, get_entity and the extractor
\* resolve the channel whenever the transport accepts one of its three
\* encodings (the value as given, the stripped peer ID, -10^12 - strippedId);
\* a transport accepting only -10^12 - strippedId is resolved after two
\* failed lookups; not-found is reported only after all three were tried.
C8_FallbackExhaustive ==
  (r_locator \in SingleDashLocators /\ r_site \in {"cli", "extractor"} /\ Resolved) =>
    /\ r_accepts \cap (GivenEncodings \cup {PeerEncoding, SupergroupEncoding}) # {}
         => r_pc = "found"
    /\ r_accepts = {SupergroupEncoding}
         => (r_pc = "found" /\ Len(r_tried) = 3)
    /\ r_pc = "notfound"
         => /\ TriedOneOf(GivenEncodings)
            /\ TriedOneOf({PeerEncoding})
            /\ TriedOneOf({SupergroupEncoding})

IsPrefix(s, t) == Len(s) <= Len(t) /\ s = Upto(t, Len(s))

\* C9: for a numeric locator starting with a single dash, get_entity and the
\* GUI make their lookups in the order (i) the numeric value as given,
\* (ii) the dash-stripped value as a peer-channel ID, (iii) -10^12 -
\* strippedId as a plain numeric lookup, and stop at the first success.
C9_LookupOrder ==
  (r_locator \in SingleDashLocators /\ r_site \in {"cli", "gui"}) =>
    /\ IsPrefix(r_tried, <<Lookup("id", r_locator), PeerEncoding, SupergroupEncoding>>)
    /\ \A i \in DOMAIN r_tried :
         r_tried[i] \in r_accepts <=> (r_pc = "found" /\ i = Len(r_tried))

NumericKinds == {"id", "peer", "inputpeer"}

\* C10: extract_channel_info followed by get_entity, and the extractor, look
\* up a candidate of the variant that matches the locator's form: the
\* username for a plain username and for t.me/<x>, a numeric ID for a bare
\* numeric string and for web.telegram.org/k/#-<x>, and the peer-channel ID
\* <channelId> alone for t.me/c/<channelId>/<messageId>.
C10_VariantMatches ==
  (r_site \in {"cli", "extractor"} /\ Resolved) =>
    /\ r_locator \in UsernameLocators
         => (r_tried # <<>> /\ r_tried[1] = Lookup("name", <<"chan">>))
    /\ r_locator \in NumericLocators \cup WebLocators
         => (r_tried # <<>> /\ r_tried[1].kind \in NumericKinds)
    /\ r_locator \in PrivateLinkLocators
         => (r_tried # <<>> /\ r_tried[1] = PeerEncoding)

\* C11: download_from_link on https://t.me/examplechan/123 looks up the
\* username examplechan, fetches message 123 by ID and transfers it, in this
\* order and with no other transport call: the messages of the channel are
\* never enumerated and no batch is formed.
C11_DirectFetch ==
  (r_site = "link" /\ r_locator = ExampleLink) =>
    /\ IsPrefix(r_tried, <<Lookup("name", <<"examplechan">>),
                           Lookup("message", <<"1", "2", "3">>),
                           Lookup("media", <<"1", "2", "3">>)>>)
    /\ r_pc # "invalid"
    /\ r_pc \in {"done", "failed"} => Len(r_tried) = 3
    /\ batches = <<>> /\ tasks = <<>>

\* the message behind the example link has been transferred
C11_Witness ==
  /\ r_site = "link" /\ r_locator = ExampleLink
  /\ r_pc = "done" /\ downloaded_count = 1

\* ------------------------------------------------------------------------
\* Properties of the resumed run
\* ------------------------------------------------------------------------
\* the folder holds a file that the naming rule of download_file produces
\* for message i: the message ID is the third piece of its name
IdEmbedded(i) ==
  \E f \in existing_files : Len(f) >= 5 /\ f[4] = "_" /\ f[5] = ToString(i)

Accepts(m, F) ==
  \/ F = {}
  \/ FileType(m) \in F
  \/ ("video" \in F /\ m.cls = "document" /\ m.major = "video")

\* the task of candidate i got as far as download_file
ReachedDownloadFile(k) ==
  /\ tasks[k].st \in {"running", "done"}
  /\ mode = "links" => links[tasks[k].msg].form = "ok"

\* C13: download_file hands an item to the transport exactly when the filter
\* accepts it: a task that got to download_file is transferring or has a
\* transfer outcome iff the filter is empty, or holds the detected type, or
\* holds "video" and the MIME type is video/*; no rejected item ever has a
\* transfer outcome; a video/mp4 item without a file name has detected type
\* mp4 and is accepted under {"video"} and under {"mp4"}.
C13_TypeFilter ==
  /\ \A k \in DOMAIN tasks :
       ReachedDownloadFile(k) =>
         ( (tasks[k].st = "running" \/ tasks[k].out \in {"ok", "err"})
             <=> Accepts(MediaOf(tasks[k].msg), file_types) )
  /\ \A i \in Cands : log[i] # <<>> => Accepts(MediaOf(i), file_types)
  /\ FileType(VideoMedia) = "mp4"
  /\ ShouldDownload(VideoMedia, {"video"}) /\ ShouldDownload(VideoMedia, {"mp4"})
  /\ ~ShouldDownload(PdfMedia, {"video"}) /\ ~ShouldDownload(PdfMedia, {"mp4"})

\* a run under the filter {"video"} has ended: a video/mp4 item without file
\* name was transferred, a pdf was rejected and never transferred
C13_Witness ==
  /\ mode = "channel" /\ RunEnded /\ file_types = {"video"}
  /\ \E i, j \in Cands :
       /\ MediaOf(i) = VideoMedia /\ log[i] = <<"ok">>
       /\ MediaOf(j) = PdfMedia /\ log[j] = <<>> /\ status[j] = "done"

\* ------------------------------------------------------------------------
\* Properties of the failure ledger
\* ------------------------------------------------------------------------
\* C14 (as claimed): when a link run has ended, stopped by the user or not,
\* every input link that is not recorded as successful is in failed_links
\* and in the failure ledger file.
C14_NoSilentLoss ==
  (mode = "links" /\ pc = "idle") =>
    \A i \in Cands :
      i \notin Range(successful_links)
        => (i \in Range(failed_links) /\ i \in Range(ledger))

\* the items whose most recent transfer failed
CurrentlyFailed == {i \in Cands : log[i] # <<>> /\ Last(log[i]) = "err"}

\* C15 (as claimed): when the process of a channel run finishes after a retry
\* call that left items failing, those items are in a failure ledger file.
C15_FailuresPersisted ==
  (mode = "channel" /\ pc = "exit" /\ calls > 0 /\ CurrentlyFailed # {}) =>
    /\ ledger # <<>>
    /\ CurrentlyFailed \subseteq Range(ledger)

\* C16: a link run writes the failure ledger file only when it ends, and then
\* if and only if failed_links is not empty; the file holds the failed links.
C16_LedgerIffFailures ==
  mode = "links" =>
    /\ pc # "idle" => ledger = <<>>
    /\ pc = "idle" => (ledger # <<>> <=> failed_links # <<>>)
    /\ ledger # <<>> => ledger = failed_links

\* a run has ended with a successful and a failed link and wrote the ledger
C16_Witness ==
  /\ mode = "links" /\ pc = "idle"
  /\ successful_links # <<>> /\ failed_links # <<>>
  /\ ledger = failed_links

\* ------------------------------------------------------------------------
\* Properties of a failed resolution
\* ------------------------------------------------------------------------
EntityKinds == {"id", "peer", "inputpeer", "name"}

\* C17: in download_from_channel and download_from_link, an enumeration, a
\* message fetch or a transfer is made only after an entity lookup has
\* succeeded; when every lookup has failed the chain has been walked once,
\* no such call was made, downloaded_count, failed_count and failed_messages
\* are as before the call, and the operation has returned: no step follows.
C17_ResolutionAborts ==
  r_site \in {"cli", "link"} =>
    /\ \A i \in DOMAIN r_tried :
         r_tried[i].kind \notin EntityKinds
           => \E j \in 1..(i - 1) : r_tried[j] \in r_accepts
    /\ r_pc = "notfound" =>
         /\ r_tried = LookupsOf(r_site, r_locator)
         /\ \A i \in DOMAIN r_tried : r_tried[i].kind \in EntityKinds
         /\ downloaded_count = 0 /\ failed_count = 0 /\ failed_messages = <<>>
         /\ ~ENABLED ResolveNext

\* download_from_link has returned after both lookups of a private channel
\* failed
C17_Witness ==
  /\ r_site = "link" /\ r_pc = "notfound"
  /\ ParseLink(r_locator).private /\ Len(r_tried) = 2

\* ------------------------------------------------------------------------
\* TelegramDownloaderGUI: the Start and Stop buttons on the main thread and
\* the download threads.  A thread runs download_process in its own event
\* loop; it reads is_downloading before each message of its loop.
\*   workers[w].pc   "fetching"  up to the end of the enumeration
\*                   "loop"      at the head of `for i, message in ...`
\*                   "transfer"  awaiting client.download_media
\*                   "final"     past the loop, before download_thread ends
\*                   "done"
\*   workers[w].i         messages processed so far
\*   workers[w].signalled the Stop button was pressed while the thread ran
\*   workers[w].late      transfers dispatched after that
\* ------------------------------------------------------------------------
nonGuiVars == <<dlVars, mode, pc, media_messages, existing_files, batch_size,
                batch_num, tasks, retryVars, linkVars, log, status, batch_of,
                batches, rounds, stopped, errors, succeeded, calls, resVars,
                oneVars, rerunVars, pathVars, gdVars>>

InitGui ==
  /\ RunIdle
  /\ ResolverIdle
  /\ OneIdle
  /\ RerunIdle /\ PathIdle /\ GuiOneIdle
  /\ is_downloading = FALSE
  /\ download_button = "normal"
  /\ stop_button = "disabled"
  /\ workers = <<>>
  /\ ui_resets = 0
  /\ g_media \in 1..MaxGuiItems

SetWorker(w, p, i, late) ==
  [workers EXCEPT ![w] = [pc |-> p, i |-> i, signalled |-> workers[w].signalled,
                          late |-> late]]

\* start_download: the buttons are switched, the flag is set, a thread starts
StartClick ==
  /\ download_button = "normal"
  /\ Len(workers) < MaxWorkers
  /\ download_button' = "disabled"
  /\ stop_button' = "normal"
  /\ is_downloading' = TRUE
  /\ workers' = Append(workers, [pc |-> "fetching", i |-> 0,
                                 signalled |-> FALSE, late |-> 0])
  /\ UNCHANGED <<nonGuiVars, ui_resets, g_media>>

\* stop_download: the flag is cleared, the buttons are switched back
StopClick ==
  /\ stop_button = "normal"
  /\ is_downloading' = FALSE
  /\ download_button' = "normal"
  /\ stop_button' = "disabled"
  /\ workers' = [w \in DOMAIN workers |->
                   IF workers[w].pc # "done"
                   THEN [workers[w] EXCEPT !.signalled = TRUE]
                   ELSE workers[w]]
  /\ UNCHANGED <<nonGuiVars, ui_resets, g_media>>

\* the enumeration has ended: "Download stopped while fetching messages", or
\* on to the download loop
WorkerFetched(w) ==
  /\ w \in DOMAIN workers /\ workers[w].pc = "fetching"
  /\ workers' = SetWorker(w, IF is_downloading THEN "loop" ELSE "final", 0,
                          workers[w].late)
  /\ UNCHANGED <<nonGuiVars, is_downloading, download_button, stop_button,
                 ui_resets, g_media>>

\* head of the download loop: out when the messages are exhausted or the
\* flag is clear, else the next transfer is started
WorkerNext(w) ==
  /\ w \in DOMAIN workers /\ workers[w].pc = "loop"
  /\ IF workers[w].i < g_media /\ is_downloading
     THEN workers' = SetWorker(w, "transfer", workers[w].i,
                               IF workers[w].signalled THEN workers[w].late + 1
                               ELSE workers[w].late)
     ELSE workers' = SetWorker(w, "final", workers[w].i, workers[w].late)
  /\ UNCHANGED <<nonGuiVars, is_downloading, download_button, stop_button,
                 ui_resets, g_media>>

\* client.download_media returned or raised: next message
WorkerTransferDone(w) ==
  /\ w \in DOMAIN workers /\ workers[w].pc = "transfer"
  /\ workers' = SetWorker(w, "loop", workers[w].i + 1, workers[w].late)
  /\ UNCHANGED <<nonGuiVars, is_downloading, download_button, stop_button,
                 ui_resets, g_media>>

\* download_process returns and download_thread ends: unless the user stopped
\* the download, the flag is cleared and the button resets are queued
WorkerEnds(w) ==
  /\ w \in DOMAIN workers /\ workers[w].pc = "final"
  /\ workers' = SetWorker(w, "done", workers[w].i, workers[w].late)
  /\ IF is_downloading
     THEN /\ is_downloading' = FALSE
          /\ ui_resets' = ui_resets + 1
     ELSE UNCHANGED <<is_downloading, ui_resets>>
  /\ UNCHANGED <<nonGuiVars, download_button, stop_button, g_media>>

\* the main loop runs the callbacks queued by a thread that ended
UiReset ==
  /\ ui_resets > 0
  /\ ui_resets' = ui_resets - 1
  /\ download_button' = "normal"
  /\ stop_button' = "disabled"
  /\ UNCHANGED <<nonGuiVars, is_downloading, workers, g_media>>

NextGui ==
  \/ StartClick
  \/ StopClick
  \/ \E w \in 1..MaxWorkers : WorkerFetched(w)
  \/ \E w \in 1..MaxWorkers : WorkerNext(w)
  \/ \E w \in 1..MaxWorkers : WorkerTransferDone(w)
  \/ \E w \in 1..MaxWorkers : WorkerEnds(w)
  \/ UiReset

SpecGui == InitGui /\ [][NextGui]_vars

\* C18 (as claimed): a download that was signalled to stop dispatches no
\* further transfer, in every interleaving of the buttons with the thread.
C18_StopHolds ==
  \A w \in DOMAIN workers : workers[w].signalled => workers[w].late = 0

\* ------------------------------------------------------------------------
\* Properties of the retry accounting
\* ------------------------------------------------------------------------
NoDuplicates(s) == \A a, b \in DOMAIN s : a # b => s[a] # s[b]

\* C19 (as claimed): after a retry_failed_downloads call that ran at least
\* one round has returned, failed_messages holds exactly the items whose most
\* recent attempt failed, each once.
C19_FailedExact ==
  (mode = "channel" /\ pc = "idle" /\ calls > 0 /\ rounds # <<>>) =>
    /\ Range(failed_messages) = CurrentlyFailed
    /\ NoDuplicates(failed_messages)

\* C20 (as claimed): over a channel run and the retry calls after it, no
\* batch pass and no retry round attempts an item twice, and a retry round
\* is made of items whose most recent attempt failed.
C20_AttemptOnce ==
  mode = "channel" =>
    /\ pc \in {"gather", "r_gather"} => NoDuplicates([k \in DOMAIN tasks |-> tasks[k].msg])
    /\ (pc = "r_gather" /\ \A k \in DOMAIN tasks : tasks[k].st = "todo")
         => \A k \in DOMAIN tasks : tasks[k].msg \in CurrentlyFailed

\* ------------------------------------------------------------------------
\* Retry: success is terminal
\* ------------------------------------------------------------------------
\* number of times item i is attempted by the rounds of the current retry call
AttemptsInCall(i) ==
  LET RECURSIVE Sum(_)
      Sum(r) == IF r = 0 THEN 0
                ELSE Sum(r - 1) + Cardinality({k \in DOMAIN rounds[r].items :
                                                 rounds[r].items[k] = i})
  IN  Sum(Len(rounds))

\* C21 (as claimed): once a transfer of an item has succeeded, no later retry
\* round and no later retry_failed_downloads call transfers that item again,
\* and one retry call attempts an item at most max_retries times.
C21_SuccessTerminal ==
  mode = "channel" =>
    /\ \A k \in DOMAIN tasks :
         (pc \in {"gather", "r_gather"} /\ tasks[k].st = "running")
           => "ok" \notin Range(log[tasks[k].msg])
    /\ (calls > 0 /\ pc \in {"idle", "r_loop", "r_gather"})
         => \A i \in Cands : AttemptsInCall(i) <= max_retries

\* ------------------------------------------------------------------------
\* Who writes the counters and the ledgers
\* ------------------------------------------------------------------------
Ledgers == <<downloaded_count, failed_count, failed_messages,
             successful_links, failed_links>>

\* C22 (as claimed): the counters and the two ledgers are not written while
\* a transfer of the batch or round being gathered is still in flight.
C22_JoinPointWrites ==
  [][Ledgers' # Ledgers =>
       ~(/\ pc \in {"gather", "r_gather", "l_gather"}
         /\ \E j \in DOMAIN tasks' : tasks'[j].st \in {"fetching", "running"})]_vars

\* ------------------------------------------------------------------------
\* Order of the failure ledger
\* ------------------------------------------------------------------------
\* the entries of s, positions in the links file, follow the order of the file
InInputOrder(s) == \A a, b \in DOMAIN s : a < b => s[a] < s[b]

\* C23 (as claimed): failed_links and the failure ledger file list the failed
\* links in the order of the input list, whatever the order in which the
\* transfers of a batch complete.  (The run in which every task of a batch
\* completes in dispatch order yields the input order, so a run that yields
\* another order differs from it on the same links and outcomes.)
C23_LedgerInputOrder ==
  mode = "links" => InInputOrder(failed_links) /\ InInputOrder(ledger)

\* ------------------------------------------------------------------------
\* Batches and the type filter
\* ------------------------------------------------------------------------
\* the media messages of the channel that the type filter accepts
Passing == {i \in Cands : ShouldDownload(MediaOf(i), file_types)}

\* C24 (as claimed): in a channel run with a non-empty type filter the
\* batches are cut from the filtered list: there are ceil(k / batch_size) of
\* them for k accepted items, each holds accepted items only, and each but
\* the last holds batch_size of them.
C24_FilteredBatches ==
  (mode = "channel" /\ file_types # {} /\ pc = "idle") =>
    /\ Len(batches) = Ceil(Cardinality(Passing), batch_size)
    /\ \A b \in DOMAIN batches :
         /\ Range(batches[b]) \subseteq Passing
         /\ b < Len(batches) => Len(batches[b]) = batch_size

\* ------------------------------------------------------------------------
\* The -100-prefixed encoding
\* ------------------------------------------------------------------------
\* the locators from which a front-end derives the supergroup encoding of a
\* dash-stripped ID: a single-dash number, or for download_from_link the
\* channel ID of a private message link
DerivesEncoding ==
  \/ r_site \in {"cli", "gui", "extractor"} /\ r_locator \in SingleDashLocators
  \/ r_site = "link" /\ r_locator \in PrivateLinkLocators

\* C25 (as claimed): at every call site the numeric value looked up as the
\* -100-prefixed encoding of the dash-stripped ID s is -10^12 - s, for 1, 4
\* and 10 digit s alike: a plain numeric lookup is made either of the value
\* as given or of -10^12 - s.
C25_SupergroupValue ==
  DerivesEncoding =>
    \A i \in DOMAIN r_tried :
      (r_tried[i].kind = "id" /\ r_tried[i].val # r_locator)
        => r_tried[i] = SupergroupEncoding

\* ------------------------------------------------------------------------
\* Message links: trailing slash, query string, domain
\* ------------------------------------------------------------------------
\* C26 (as claimed): for a message link on t.me, telegram.me or telegram.dog,
\* given as it is, with a trailing slash or with a query string appended,
\* download_from_link extracts the same channel and message ID: it looks up
\* the channel chan, and once the channel is found it fetches message 7.
C26_LinkVariants ==
  (r_site = "link" /\ r_locator \in LinkVariants /\ r_pc # "start") =>
    /\ r_pc # "invalid"
    /\ ParseLink(r_locator).channel = <<"chan">>
    /\ ParseLink(r_locator).message = <<"7">>
    /\ r_tried # <<>> => r_tried[1] = Lookup("name", <<"chan">>)
    /\ r_pc \in {"fetched", "nomessage"} => Last(r_tried) = Lookup("message", <<"7">>)

\* ------------------------------------------------------------------------
\* Functions of one message.  The media of the message is described by
\*   cls        "photo" (MessageMediaPhoto) or "document" (MessageMediaDocument)
\*   major, sub the two halves of doc.mime_type
\*   file_name  the file_name of the first document attribute that has one,
\*              as tokens; <<>> when no attribute has one
\* ------------------------------------------------------------------------
\* str.lower() of a token
Lower(tok) ==
  CASE tok = "PDF" -> "pdf"
    [] tok = "DOCX" -> "docx"
    [] tok = "VIDEO" -> "video"
    [] OTHER -> tok

\* os.path.splitext(file_name)[1].lower()[1:]: the part after the last dot,
\* leading dots aside; one token for the names drawn here
FileExt(name) ==
  LET dots == {i \in Occurrences(name, <<".">>) : \E j \in 1..(i - 1) : name[j] # "."}
  IN  IF dots = {} THEN ""
      ELSE LET last == CHOOSE i \in dots : \A j \in dots : j <= i
           IN  IF last = Len(name) THEN "" ELSE Lower(name[last + 1])

\* what download_file reads of the media
Descriptor(media) ==
  IF media.cls = "document"
  THEN [cls |-> "document", major |-> media.major, sub |-> media.sub,
        named |-> media.file_name # <<>>, ext |-> FileExt(media.file_name)]
  ELSE [cls |-> media.cls, major |-> "", sub |-> "", named |-> FALSE, ext |-> ""]

OfficeExtensions == {"doc", "docx", "xls", "xlsx", "ppt", "pptx"}

\* MediaLinkExtractor._get_media_type
GetMediaType(media) ==
  IF media.cls = "none" THEN "text"
  ELSE IF media.cls = "photo" THEN "photo"
  ELSE IF media.cls = "document"
       THEN IF Lower(media.major) = "video" THEN "video"
            ELSE IF Lower(media.major) = "application" /\ Lower(media.sub) = "pdf" THEN "pdf"
            ELSE IF Lower(media.major) = "audio" THEN "audio"
            ELSE IF media.file_name # <<>>
                 THEN (IF FileExt(media.file_name) \in OfficeExtensions THEN "document"
                       ELSE FileExt(media.file_name))
                 ELSE Lower(media.sub)
       ELSE "unknown"

\* download_file, "Generate a unique filename"
FileNameWithoutId(m) ==
  IF m.media.cls = "document"
  THEN IF m.media.file_name # <<>>
       THEN m.date_str \o <<"_">> \o m.media.file_name
       ELSE m.date_str \o <<".", m.media.sub>>
  ELSE m.date_str \o <<".", "jpg">>
FileName(m) ==
  IF m.media.cls = "document"
  THEN IF m.media.file_name # <<>>
       THEN m.date_str \o <<"_", m.id, "_">> \o m.media.file_name
       ELSE m.date_str \o <<"_", m.id, ".", m.media.sub>>
  ELSE m.date_str \o <<"_", m.id, ".", "jpg">>

\* the inputs drawn
MimeTypes ==
  {<<"video", "mp4">>, <<"application", "pdf">>, <<"application", "msword">>,
   <<"audio", "mpeg">>}

FileNames ==
  {<<>>,
   <<"report", ".", "docx">>,
   <<"REPORT", ".", "PDF">>,
   <<"sheet", ".", "xls">>,
   <<"clip", ".", "mp4">>,
   <<"README">>,
   <<"part", "_", "7", ".", "pdf">>}

MediaItems ==
  {[cls |-> "photo"]}
    \cup {[cls |-> "document", major |-> mt[1], sub |-> mt[2], file_name |-> fn] :
            mt \in MimeTypes, fn \in FileNames}

TypeFilters == {{}, {"video"}, {"document"}, {"docx"}, {"mp4"}, {"photo"}}

\* datetime.now().strftime("%Y%m%d_%H%M%S")
DateStrs == {<<"20240101", "_", "120000">>, <<"20240102", "_", "093000">>}

\* message.id, as str() writes it
MessageIds == {"5", "7", "120000"}

\* ------------------------------------------------------------------------
\* Type detection applied to one message
\* ------------------------------------------------------------------------
\* what the functions of one message leave alone
restVars == <<dlVars, mode, pc, media_messages, existing_files, batch_size, batch_num,
              tasks, retryVars, linkVars, log, status, batch_of, batches, rounds,
              stopped, errors, succeeded, calls, guiVars, resVars, rerunVars, pathVars>>

InitDetect ==
  /\ InstanceIdle /\ GuiIdle /\ ResolverIdle /\ RerunIdle /\ PathIdle /\ GuiOneIdle
  /\ existing_files = {}
  /\ file_types \in TypeFilters
  /\ message \in [id : {"5"}, date_str : {<<>>}, media : MediaItems]
  /\ file_type = NoType
  /\ should_download = FALSE
  /\ media_type = NoType
  /\ file_name = <<>>
  /\ msg_id = ""
  /\ skipped = FALSE
  /\ applied = <<>>

\* download_file up to `if should_download:`
DetectFileType ==
  /\ "download_file" \notin Range(applied)
  /\ file_type' = FileType(Descriptor(message.media))
  /\ should_download' = ShouldDownload(Descriptor(message.media), file_types)
  /\ applied' = Append(applied, "download_file")
  /\ UNCHANGED <<restVars, gdVars, message, media_type, file_name, msg_id, skipped>>

\* _get_media_type(message)
DetectMediaType ==
  /\ "_get_media_type" \notin Range(applied)
  /\ media_type' = GetMediaType(message.media)
  /\ applied' = Append(applied, "_get_media_type")
  /\ UNCHANGED <<restVars, gdVars, message, file_type, should_download, file_name,
                 msg_id, skipped>>

\* GUI download_process, "Determine file type" and "Check if we want to
\* download this file type"
GuiFileType(m) ==
  IF m.cls = "document" THEN (IF m.named THEN m.ext ELSE NoType)
  ELSE IF m.cls = "photo" THEN "photo" ELSE NoType

GuiShouldDownload(m, ft) ==
  ft = {} \/ (GuiFileType(m) # NoType /\ GuiFileType(m) \in ft)

DetectGui ==
  /\ "download_process" \notin Range(applied)
  /\ g_file_type' = GuiFileType(Descriptor(message.media))
  /\ g_transfers' = GuiShouldDownload(Descriptor(message.media), file_types)
  /\ applied' = Append(applied, "download_process")
  /\ UNCHANGED <<restVars, message, file_type, should_download, media_type,
                 file_name, msg_id, skipped>>

NextDetect == DetectFileType \/ DetectMediaType \/ DetectGui

SpecDetect == InitDetect /\ [][NextDetect]_vars

\* ------------------------------------------------------------------------
\* Naming and the skip-if-exists check applied to one message
\* ------------------------------------------------------------------------
InitNames ==
  /\ InstanceIdle /\ GuiIdle /\ ResolverIdle /\ RerunIdle /\ PathIdle /\ GuiOneIdle
  /\ existing_files = {}
  /\ file_types = {}
  /\ message \in [id : MessageIds, date_str : DateStrs, media : MediaItems]
  /\ file_type = NoType
  /\ should_download = FALSE
  /\ media_type = NoType
  /\ file_name = <<>>
  /\ msg_id \in MessageIds
  /\ skipped = FALSE
  /\ applied = <<>>

\* a successful transfer of the message: download_file names the file and
\* download_media writes it into the download folder
WriteFile ==
  /\ "download_file" \notin Range(applied)
  /\ file_name' = FileName(message)
  /\ existing_files' = existing_files \cup {FileName(message)}
  /\ applied' = Append(applied, "download_file")
  /\ UNCHANGED <<dlVars, mode, pc, media_messages, batch_size, batch_num, tasks,
                 retryVars, linkVars, log, status, batch_of, batches, rounds,
                 stopped, errors, succeeded, calls, guiVars, resVars, rerunVars, pathVars, gdVars,
                 message, file_type, should_download, media_type, msg_id, skipped>>

\* a resumed run: download_file_if_not_exists looks for msg_id in the names
\* of the files of the folder
CheckExisting ==
  /\ "download_file_if_not_exists" \notin Range(applied)
  /\ skipped' = SkipIfExists(msg_id, existing_files)
  /\ applied' = Append(applied, "download_file_if_not_exists")
  /\ UNCHANGED <<restVars, gdVars, message, file_type, should_download, media_type,
                 file_name, msg_id>>

NextNames == WriteFile \/ CheckExisting

SpecNames == InitNames /\ [][NextNames]_vars

\* ------------------------------------------------------------------------
\* Properties of type detection
\* ------------------------------------------------------------------------
Applied(f) == f \in Range(applied)

\* a document whose file name has an office extension, and whose MIME type
\* is that of an office document, not one that has precedence (video/*)
OfficeNamed(media) ==
  /\ media.cls = "document"
  /\ <<media.major, media.sub>> = <<"application", "msword">>
  /\ media.file_name # <<>>
  /\ FileExt(media.file_name) \in OfficeExtensions

\* C27 (as claimed): a document whose file name has an office extension is
\* detected as "document", by download_file and by _get_media_type, and
\* download_file accepts it under a filter that names "document".
C27_OfficeIsDocument ==
  OfficeNamed(message.media) =>
    /\ Applied("download_file")
         => /\ file_type = "document"
            /\ "document" \in file_types => should_download
    /\ Applied("_get_media_type") => media_type = "document"

\* the detected type as the rule of C28 gives it
ClaimedType(media) ==
  IF media.cls = "photo" THEN "photo"
  ELSE IF media.major = "video" THEN "video"
  ELSE IF media.file_name # <<>> THEN FileExt(media.file_name)
  ELSE media.sub

\* C28 (as claimed): download_file detects "photo" for a photo; for a
\* document "video" when the MIME type is video/*, with or without a file
\* name; else the lower-cased extension of the file name when there is one;
\* else the MIME subtype.
C28_DetectedType ==
  Applied("download_file") => file_type = ClaimedType(message.media)

\* ------------------------------------------------------------------------
\* Properties of the naming rule and the skip-if-exists check
\* ------------------------------------------------------------------------
\* a transfer of the message wrote its file, then a resumed run checked msg_id
WrittenThenChecked == applied = <<"download_file", "download_file_if_not_exists">>

\* C29: whichever of the three forms the naming rule gives the file of
\* message m (date_m_originalName, date_m.ext, date_m.jpg), the check of a
\* resumed run for m finds m in that name and skips m.
C29_WrittenIsFound ==
  /\ Applied("download_file") /\ message # NoMessage /\ file_name # <<>>
       => Matches(message.id, file_name)
  /\ (WrittenThenChecked /\ msg_id = message.id) => skipped

C29_Witness ==
  /\ WrittenThenChecked
  /\ msg_id = message.id
  /\ skipped
  /\ file_name = <<"20240101", "_", "120000", "_", "7", ".", "jpg">>

\* C30 (as claimed): the file of a transfer of message m never makes a
\* resumed run skip another message n # m.
C30_OnlyOwnFile ==
  (WrittenThenChecked /\ msg_id # message.id) => ~skipped

\* ------------------------------------------------------------------------
\* The links file and the failure ledger file as text.  A file is a
\* sequence of tokens; "\n" ends a line and " " is a blank.
\* ------------------------------------------------------------------------
\* the line of the links file behind a link of each kind
LineOf(l) ==
  IF l.form = "malformed" THEN <<"not", " ", "a", " ", "link">>
  ELSE IF l.form = "missing" THEN Https \o <<"t.me", "/", "nochan", "/", "7">>
  ELSE IF l.media = VideoMedia THEN Https \o <<"t.me", "/", "chan", "/", "7">>
  ELSE Https \o <<"t.me", "/", "chan", "/", "8">>

\* what download_from_link finds behind a line
KindOf(line) ==
  IF \E l \in LinkKinds : LineOf(l) = line
  THEN CHOOSE l \in LinkKinds : LineOf(l) = line
  ELSE [form |-> "malformed", media |-> PhotoMedia]

Whitespace == {" ", "\n"}

RECURSIVE Strip(_)
\* s.strip()
Strip(s) ==
  IF s # <<>> /\ s[1] \in Whitespace THEN Strip(From(s, 1))
  ELSE IF s # <<>> /\ s[Len(s)] \in Whitespace THEN Strip(Upto(s, Len(s) - 1))
  ELSE s

RECURSIVE WriteLines(_)
\* _save_failed_links: f.write(f"{link}\n") for each link
WriteLines(ls) ==
  IF ls = <<>> THEN <<>> ELSE Head(ls) \o <<"\n">> \o WriteLines(Tail(ls))

RECURSIVE FileLines(_)
\* `for line in f`: the lines of the file, each with the "\n" that ends it
FileLines(text) ==
  IF text = <<>> THEN <<>>
  ELSE IF ~Contains(text, <<"\n">>) THEN <<text>>
  ELSE <<Upto(text, FirstOcc(text, <<"\n">>))>>
         \o FileLines(From(text, FirstOcc(text, <<"\n">>)))

NotBlank(line) == Strip(line) # <<>>

\* [line.strip() for line in f if line.strip()]
ReadLinksUnstripped(text) == FileLines(text)
ReadLinks(text) ==
  LET kept == SelectSeq(FileLines(text), NotBlank)
  IN  [k \in DOMAIN kept |-> Strip(kept[k])]

\* ------------------------------------------------------------------------
\* A second run: retry mode of batch_download_from_links, or a run method
\* called again on the same instance
\* ------------------------------------------------------------------------
MaxRuns == 2
MaxRerunItems == 2

\* the text of the lines a list of candidates stands for
LinesOf(cands) == [k \in DOMAIN cands |-> LineOf(links[cands[k]])]

FirstRun == [how |-> "main", first |-> 0, lines |-> LinesOf([i \in DOMAIN links |-> i]),
             written |-> <<>>]

InitRerun ==
  /\ InitRun
  /\ existing_files = {}
  /\ NumCand <= MaxRerunItems
  /\ total_links = Len(links)
  /\ runs = <<FirstRun>>
  /\ PathIdle /\ GuiOneIdle

\* the candidates of the run going on
ThisRun == {i \in Cands : i > Last(runs).first}

\* history of the candidates, the new ones added
Extended(f, n, v) == [i \in 1..(Len(f) + n) |-> IF i <= Len(f) THEN f[i] ELSE v]

\* a later process in retry mode: a new BatchLinkDownloader, then
\* retry_failed_links(file): the two lists are reset and the file written by
\* _save_failed_links is read, twice, into pending_links; the batch loop of
\* download_from_links_file follows
LinkResume ==
  /\ mode = "links" /\ pc = "idle" /\ Len(runs) < MaxRuns
  /\ ledger # <<>>
  /\ LET written == LinesOf(ledger)
         lines == ReadLinks(WriteLines(written))
     IN  /\ links' = links \o [k \in DOMAIN lines |-> KindOf(lines[k])]
         /\ pending_links' = [k \in DOMAIN lines |-> Len(links) + k]
         /\ total_links' = Len(lines)
         /\ runs' = Append(runs, [how |-> "retry_failed_links", first |-> Len(links),
                                  lines |-> lines, written |-> written])
         /\ log' = Extended(log, Len(lines), <<>>)
         /\ status' = Extended(status, Len(lines), "pending")
         /\ batch_of' = Extended(batch_of, Len(lines), 0)
  /\ successful_links' = <<>>
  /\ failed_links' = <<>>
  /\ file_types' = {}
  /\ downloaded_count' = 0
  /\ failed_count' = 0
  /\ failed_messages' = <<>>
  /\ batch_num' = 0
  /\ stopped' = FALSE
  /\ pc' = "l_loop"
  /\ UNCHANGED <<retryVars, ledger, mode, media_messages, existing_files, batch_size,
                 resVars, guiVars, oneVars, pathVars, gdVars, tasks, batches, rounds, errors,
                 succeeded, calls>>

\* download_from_links_file called again on the same BatchLinkDownloader,
\* for another links file of one line: nothing is reset but pending_links
LinkRunAgain(l) ==
  /\ mode = "links" /\ pc = "idle" /\ Len(runs) < MaxRuns
  /\ links' = Append(links, l)
  /\ pending_links' = <<Len(links) + 1>>
  /\ total_links' = 1
  /\ runs' = Append(runs, [how |-> "download_from_links_file", first |-> Len(links),
                           lines |-> <<LineOf(l)>>, written |-> <<>>])
  /\ log' = Extended(log, 1, <<>>)
  /\ status' = Extended(status, 1, "pending")
  /\ batch_of' = Extended(batch_of, 1, 0)
  /\ batch_num' = 0
  /\ stopped' = FALSE
  /\ pc' = "l_loop"
  /\ UNCHANGED <<dlVars, retryVars, successful_links, failed_links, ledger, mode,
                 media_messages, existing_files, batch_size, resVars, guiVars,
                 oneVars, pathVars, gdVars, tasks, batches, rounds, errors, succeeded, calls>>

\* download_from_channel called again on the same TelegramDownloader, for
\* the same channel: the counters and failed_messages keep their values
ChannelRunAgain ==
  /\ mode = "channel" /\ pc = "idle" /\ Len(runs) < MaxRuns
  /\ runs' = Append(runs, [how |-> "download_from_channel", first |-> 0,
                           lines |-> <<>>, written |-> <<>>])
  /\ batch_num' = 0
  /\ pc' = "loop"
  /\ UNCHANGED <<dlVars, retryVars, linkVars, mode, media_messages, existing_files,
                 batch_size, resVars, guiVars, oneVars, pathVars, gdVars, total_links, tasks, log,
                 status, batch_of, batches, rounds, histVars>>

NextRerun ==
  \/ ChannelStart
  \/ ChannelDispatch
  \/ ChannelBatchDone
  \/ ChannelSummary
  \/ \E k \in 1..MaxBatch : FileStart(k)
  \/ \E k \in 1..MaxBatch : FileSkip(k)
  \/ \E k \in 1..MaxBatch : FileOk(k)
  \/ \E k \in 1..MaxBatch, e \in TransportErrors : FileError(k, e)
  \/ ChannelRunAgain
  \/ LinkStart
  \/ LinkDispatch
  \/ LinkBatchDone
  \/ LinkSummary
  \/ \E k \in 1..MaxBatch : LinkParseFail(k)
  \/ \E k \in 1..MaxBatch : LinkFetch(k)
  \/ \E k \in 1..MaxBatch : LinkMissing(k)
  \/ \E k \in 1..MaxBatch : LinkFileStart(k)
  \/ \E k \in 1..MaxBatch : LinkFileSkip(k)
  \/ \E k \in 1..MaxBatch : LinkFileOk(k)
  \/ \E k \in 1..MaxBatch, e \in TransportErrors : LinkFileError(k, e)
  \/ LinkResume
  \/ \E l \in LinkKinds : LinkRunAgain(l)

SpecRerun == InitRerun /\ [][NextRerun]_vars

\* ------------------------------------------------------------------------
\* Properties of a second run
\* ------------------------------------------------------------------------
Resumed == runs # <<>> /\ Last(runs).how = "retry_failed_links"

\* number of batches that dispatched candidate i
TimesDispatched(i) == Cardinality({b \in DOMAIN batches : i \in Range(batches[b])})

\* C31: the lines retry_failed_links reads back from the file written by
\* _save_failed_links are the failed links, in the same order and
\* multiplicity; the resumed run dispatches these and no others, each once.
C31_LedgerRoundTrip ==
  Resumed =>
    /\ Last(runs).lines = Last(runs).written
    /\ total_links = Len(Last(runs).written)
    /\ LinesOf([k \in 1..total_links |-> Last(runs).first + k]) = Last(runs).written
    /\ pc = "l_gather" => \A k \in DOMAIN tasks : tasks[k].msg \in ThisRun
    /\ pc = "idle" => \A i \in ThisRun : TimesDispatched(i) = 1 /\ status[i] = "done"

C31_Witness ==
  /\ Resumed
  /\ pc = "idle"
  /\ Len(Last(runs).written) = 2
  /\ Last(runs).written[1] = Last(runs).written[2]
  /\ Last(runs).lines[1] = <<"not", " ", "a", " ", "link">>

\* ------------------------------------------------------------------------
\* Retry: no failed item is dropped
\* ------------------------------------------------------------------------
\* C32 (as claimed): when a retry_failed_downloads call has returned,
\* whatever max_retries it was given, every item whose most recent transfer
\* failed is still in failed_messages.
C32_NoFailureDropped ==
  (mode = "channel" /\ pc = "idle" /\ calls > 0)
    => CurrentlyFailed \subseteq Range(failed_messages)

\* ------------------------------------------------------------------------
\* The failure counter and the failure list
\* ------------------------------------------------------------------------
\* C33: between awaits, in every run, link download and retry call and
\* under every interleaving of the transfers, failed_count is the length
\* of failed_messages.
C33_CountIsLength == failed_count = Len(failed_messages)

C33_Witness ==
  /\ mode = "channel" /\ pc = "r_gather" /\ calls = 2
  /\ failed_count = 1
  /\ InFlight # {}

\* C34 (as claimed): in a second run on the same instance the counts and the
\* ledger are those of the second run: completed links never exceed
\* total_links, the failed links to be saved are links of this run, and the
\* counters of a second channel run count its own items only.
C34_RunOwnsCounts ==
  Len(runs) = MaxRuns =>
    /\ mode = "links"
         => /\ Len(successful_links) + Len(failed_links) <= total_links
            /\ Range(failed_links) \subseteq ThisRun
    /\ mode = "channel" => downloaded_count + failed_count <= Len(media_messages)

\* ------------------------------------------------------------------------
\* The GUI: one download at a time
\* ------------------------------------------------------------------------
\* the threads whose download_process is enumerating or transferring
ActiveWorkers == {w \in DOMAIN workers : workers[w].pc \in {"fetching", "loop", "transfer"}}

\* C35 (as claimed): under every interleaving of the Start and Stop buttons
\* with the threads, at most one download_process is active.
C35_SingleWorker == Cardinality(ActiveWorkers) <= 1

\* ------------------------------------------------------------------------
\* Destination paths.  download_file names the file it writes after
\* datetime.now() to the second, the message ID and the file name or the
\* MIME subtype; neither the channel nor the task is part of the name.
\* ------------------------------------------------------------------------
MaxPathItems == 2

\* datetime.now().strftime("%H%M%S") at the start of the run and one second later
StartTime == "120000"

NextSecond == "120001"

\* line i of the links file: every line names a channel of its own; the
\* message behind a video line is 7, behind any other line 8
PathLine(i) ==
  Https \o <<"t.me", "/", "chan" \o ToString(i), "/",
             IF links[i].media = VideoMedia THEN "7" ELSE "8">>

\* message.id of candidate i
MessageId(i) ==
  IF mode = "channel" THEN ToString(i) ELSE ParseLink(PathLine(i)).message[1]

\* download_file, the name of the file: date_str, msg_id and the file name
\* of the document, or the subtype of its MIME type
FilePath(i) ==
  IF MediaOf(i).named THEN NamedFile(now, MessageId(i)) ELSE PlainFile(now, MessageId(i))

InitPaths ==
  /\ InitRun
  /\ RerunIdle
  /\ existing_files = {}
  /\ NumCand <= MaxPathItems
  /\ GuiOneIdle
  /\ now = StartTime
  /\ file_paths = [i \in Cands |-> <<>>]

\* a second passes
Tick ==
  /\ now = StartTime
  /\ now' = NextSecond
  /\ UNCHANGED <<dlVars, mode, pc, media_messages, existing_files, batch_size,
                 batch_num, tasks, retryVars, linkVars, log, status, batch_of,
                 batches, rounds, histVars, guiVars, resVars, oneVars, rerunVars, gdVars,
                 file_paths>>

\* download_file of a channel run up to `await self.client.download_media`:
\* the file name is made and the transfer to file_path is started
FileStartAt(k) ==
  /\ mode = "channel" /\ pc \in {"gather", "r_gather"}
  /\ IsNextToStep(k)
  /\ ShouldDownload(MediaOf(tasks[k].msg), file_types)
  /\ tasks' = SetTask(k, "running", FALSE, "none")
  /\ status' = SetStatus(tasks[k].msg, "running")
  /\ file_paths' = [file_paths EXCEPT ![tasks[k].msg] = FilePath(tasks[k].msg)]
  /\ UNCHANGED <<pc, dlVars, retryVars, linkVars, mode, media_messages,
                 existing_files, batch_size, resVars, guiVars, oneVars, rerunVars, gdVars,
                 now, batch_num, log, batch_of, batches, rounds, histVars>>

\* download_file of a link run: the same, for the message behind the link
LinkFileStartAt(k) ==
  /\ mode = "links" /\ pc = "l_gather"
  /\ k \in DOMAIN tasks /\ tasks[k].st = "fetching"
  /\ links[tasks[k].msg].form = "ok"
  /\ ShouldDownload(MediaOf(tasks[k].msg), file_types)
  /\ tasks' = SetTask(k, "running", FALSE, "none")
  /\ status' = SetStatus(tasks[k].msg, "running")
  /\ file_paths' = [file_paths EXCEPT ![tasks[k].msg] = FilePath(tasks[k].msg)]
  /\ UNCHANGED <<pc, retryVars, links, pending_links, ledger, mode, media_messages,
                 existing_files, batch_size, resVars, guiVars, oneVars, rerunVars, gdVars,
                 now, batch_num, batch_of, batches, rounds, stopped, calls,
                 dlVars, successful_links, failed_links, log, errors, succeeded>>

NextPaths ==
  \/ Tick
  \/ ChannelStart
  \/ ChannelDispatch
  \/ ChannelBatchDone
  \/ ChannelSummary
  \/ \E k \in 1..MaxBatch : FileStartAt(k)
  \/ \E k \in 1..MaxBatch : FileSkip(k)
  \/ \E k \in 1..MaxBatch : FileOk(k)
  \/ \E k \in 1..MaxBatch, e \in TransportErrors : FileError(k, e)
  \/ LinkStart
  \/ LinkDispatch
  \/ LinkBatchDone
  \/ LinkSummary
  \/ \E k \in 1..MaxBatch : LinkParseFail(k)
  \/ \E k \in 1..MaxBatch : LinkFetch(k)
  \/ \E k \in 1..MaxBatch : LinkMissing(k)
  \/ \E k \in 1..MaxBatch : LinkFileStartAt(k)
  \/ \E k \in 1..MaxBatch : LinkFileSkip(k)
  \/ \E k \in 1..MaxBatch : LinkFileOk(k)
  \/ \E k \in 1..MaxBatch, e \in TransportErrors : LinkFileError(k, e)

SpecPaths == InitPaths /\ [][NextPaths]_vars

\* C36 (as claimed): two transfers in flight at the same time never write to
\* the same destination path, in a batch of a channel run as in a batch of a
\* link run whose links point to different channels.
C36_DistinctPaths ==
  \A j \in InFlight : \A k \in InFlight :
    j # k => file_paths[tasks[j].msg] # file_paths[tasks[k].msg]

\* ------------------------------------------------------------------------
\* MediaLinkExtractor.extract_links_from_channel followed by
\* TelegramDownloader.download_from_link on a link it emitted
\* ------------------------------------------------------------------------
\* message IDs of the channel, as str(message.id)
EmittedIds == {<<"7">>, <<"1", "2", "0">>}

\* "Create a direct link to this message"
ExtractedLink(url, m) ==
  LET channel_id == ExtractChannelId(url)
  IN  IF StartsWith(channel_id, <<"-", "1", "0", "0">>)
      THEN Https \o <<"t.me", "/", "c", "/">> \o From(channel_id, 4) \o <<"/">> \o m
      ELSE IF StartsWith(channel_id, <<"-">>)
           THEN Https \o <<"t.me", "/", "c", "/">> \o From(channel_id, 1) \o <<"/">> \o m
           ELSE Https \o <<"t.me", "/">> \o channel_id \o <<"/">> \o m

InitExtract ==
  /\ ResolveInit
  /\ r_site = "extractor"

\* the extractor emits the link of message m, and the link is given to
\* download_from_link
EmitLink(m) ==
  /\ r_site = "extractor" /\ r_pc = "enumerated"
  /\ r_tried' = Append(r_tried, Lookup("link", m))
  /\ r_locator' = ExtractedLink(r_locator, m)
  /\ r_site' = "link"
  /\ r_chain' = <<>>
  /\ r_pc' = "start"
  /\ UNCHANGED <<runVars, r_accepts>>

NextExtract ==
  \/ ResolveStart
  \/ LookupFails
  \/ LookupSucceeds
  \/ ResolveFails
  \/ Enumerate
  \/ \E m \in EmittedIds : EmitLink(m)
  \/ \E exists \in BOOLEAN : FetchMessage(exists)
  \/ \E e \in {"none"} \cup TransportErrors : TransferMessage(e)

SpecExtract == InitExtract /\ [][NextExtract]_vars

\* the link of message r_tried[3].val was emitted and download_from_link has
\* parsed it
LinkGiven == r_site = "link" /\ r_pc # "start"

\* C37 (as claimed): the emitted link parses to the message ID it was made
\* for, and the first entity lookup of download_from_link is for the
\* identifier the extractor looked up.
C37_LinkRoundTrip ==
  LinkGiven =>
    /\ ParseLink(r_locator) # InvalidLink
    /\ ParseLink(r_locator).message = r_tried[3].val
    /\ LinkEntityLookups(ParseLink(r_locator)) # <<>>
    /\ LinkEntityLookups(ParseLink(r_locator))[1].val = r_tried[1].val

\* ------------------------------------------------------------------------
\* The type filter of the extractor and of the GUI against download_file
\* ------------------------------------------------------------------------
\* extract_links_from_channel, "Check if the media type matches what we're
\* looking for": a link is emitted for the message
ExtractorAccepts(mt, media_types) == media_types = {} \/ mt \in media_types

\* C38 (as claimed): under one type filter the extractor emits a link for a
\* media item exactly when download_file would transfer the item.
C38_SameFilter ==
  (Applied("download_file") /\ Applied("_get_media_type")) =>
    (ExtractorAccepts(media_type, file_types) <=> should_download)

\* C39 (as claimed): under one type filter the GUI decides to transfer a
\* media item exactly when download_file does, a video/* document without a
\* file name under the filter {"video"} included.
C39_GuiSameDecision ==
  (Applied("download_file") /\ Applied("download_process")) =>
    (g_transfers <=> should_download)

\* ------------------------------------------------------------------------
\* download_from_links_file to its end: the user answers anything but 'n'
\* when asked, the event loop runs every task that can take a step, and
\* every transfer returns or raises
\* ------------------------------------------------------------------------
MaxFairLinks == 3

InitLinks ==
  /\ Init
  /\ mode = "links"
  /\ Len(links) <= MaxFairLinks

NextLinks ==
  \/ LinkStart
  \/ LinkDispatch
  \/ LinkBatchDone
  \/ LinkSummary
  \/ \E k \in 1..MaxBatch : LinkParseFail(k)
  \/ \E k \in 1..MaxBatch : LinkFetch(k)
  \/ \E k \in 1..MaxBatch : LinkMissing(k)
  \/ \E k \in 1..MaxBatch : LinkFileStart(k)
  \/ \E k \in 1..MaxBatch : LinkFileSkip(k)
  \/ \E k \in 1..MaxBatch : LinkFileOk(k)
  \/ \E k \in 1..MaxBatch, e \in TransportErrors : LinkFileError(k, e)

SpecLinksFair == InitLinks /\ [][NextLinks]_vars /\ WF_vars(NextLinks)

\* number of times process_link has finished with line i
TimesAttempted(i) ==
  Len(SelectSeq(successful_links \o failed_links, LAMBDA l : l = i))

\* download_from_links_file has returned
LinksReturned == mode = "links" /\ pc = "idle"

\* C40: download_from_links_file returns, and when it has returned
\* pending_links is empty and every line of the file was dispatched in one
\* batch and attempted by process_link exactly once.
C40_Terminates ==
  /\ <>LinksReturned
  /\ [](LinksReturned =>
          /\ pending_links = <<>>
          /\ \A i \in Cands : TimesDispatched(i) = 1 /\ TimesAttempted(i) = 1)

C40_Witness ==
  /\ LinksReturned
  /\ Len(links) = MaxFairLinks
  /\ batch_num >= 2
  /\ successful_links # <<>>
  /\ failed_links # <<>>

\* ------------------------------------------------------------------------
\* A link run and its resumption from the failure ledger alone: main, then
\* retry_failed_links in a new process, and nothing else
\* ------------------------------------------------------------------------
InitRetryLinks ==
  /\ InitRerun
  /\ mode = "links"

NextRetryLinks ==
  \/ LinkStart
  \/ LinkDispatch
  \/ LinkBatchDone
  \/ LinkSummary
  \/ \E k \in 1..MaxBatch : LinkParseFail(k)
  \/ \E k \in 1..MaxBatch : LinkFetch(k)
  \/ \E k \in 1..MaxBatch : LinkMissing(k)
  \/ \E k \in 1..MaxBatch : LinkFileStart(k)
  \/ \E k \in 1..MaxBatch : LinkFileSkip(k)
  \/ \E k \in 1..MaxBatch : LinkFileOk(k)
  \/ \E k \in 1..MaxBatch, e \in TransportErrors : LinkFileError(k, e)
  \/ LinkResume

SpecRetryLinks == InitRetryLinks /\ [][NextRetryLinks]_vars

====
